---- MODULE Spec2Model ----
(***************************************************************************)
(* State-machine model of the reactive gesture-and-performance pipeline:   *)
(*   - AdaptiveRenderer   (adaptive quality controller, RxJS pipelines)    *)
(*   - TouchManager       (Phaser pointer based recognizer)                *)
(*   - GestureManager     (RxJS based recognizer)                          *)
(* Each component has its own variables, initial predicate, next-state     *)
(* relation and specification; a component's specification leaves the      *)
(* other components' variables untouched.                                  *)
(***************************************************************************)
EXTENDS Integers, Sequences, FiniteSets, TLC

VARIABLES
    \* ---- AdaptiveRenderer ------------------------------------------------
    arPc,               \* "fields" (fields initialised) | "new" (device tier detected) |
                        \* "running" (constructor returned)
    deviceTier,         \* AdaptiveRenderer.deviceTier
    currentSettings,    \* value of the BehaviorSubject currentSettings$
    performanceMetrics, \* value of the BehaviorSubject performanceMetrics$
    clMetrics,          \* combineLatest: latest value that passed throttleTime(1000)
    ducKey,             \* distinctUntilChanged: <<>> before the first value, else <<last>>
    ladderThrottle,     \* timer of throttleTime(1000)
    emergencyThrottle,  \* timer of throttleTime(5000)
    memoryPoll,         \* timer of setInterval(..., 2000)
    sampleWait,         \* ms until the sampler's rolling 1-second window has elapsed
    arEvents,           \* events emitted on the bus by the last step, in order
    sinceEmergency,     \* observation: ms since emergencyQualityReduction last ran (capped)
    scn,                \* observation: progress of the 1 Hz sample scenario
    settingsSub,        \* a subscriber of getCurrentSettings(): what it received in
                        \* the last step, in order, and the last value it received
    chain,              \* observation: deepest nesting of applyRenderSettings within
                        \* currentSettings$.next in the last step
    \* ---- clock and contacts of the two recognizers ------------------------
    now,                \* ms since construction
    contacts,           \* observation: the contacts so far, with their gesture events
    lastTap,            \* observation: the most recent contact that was a tap
    \* ---- TouchManager ----------------------------------------------------
    activeTouches,      \* TouchManager.activeTouches: pointer id -> pointer position
    touchStartTime,     \* TouchManager.touchStartTime
    touchStartPos,      \* TouchManager.touchStartPos
    lastTapTime,        \* TouchManager.lastTapTime
    holdCalls,          \* pending scene.time.delayedCall callbacks of handleTouchStart
    tmEvents,           \* events emitted on the EventBus by the last step, in order
    \* ---- GestureManager --------------------------------------------------
    touches,            \* TouchEvent.touches: the touches on the element, oldest first
    tapInner,           \* tap$: inner subscription of switchMap (touchEnd$ until timer)
    singleTap,          \* single tap: inner timer of switchMap
    tapBuffer,          \* double tap: open buffer of bufferTime and the time it closes
    swipeInner,         \* swipe: inner subscription of switchMap
    pinchInner,         \* pinch: inner subscription of switchMap
    longPress,          \* long press: inner timer of switchMap
    lastPinch,          \* observation: scale of the last pinch event of the pinch under way
    gmEvents,           \* gestures emitted by the last step, in order
    \* ---- the window, EnhancedResponsiveManager and ResponsiveManager ---------
    win,                \* window.innerWidth, innerHeight (the game container fills it)
    resizeObserver,     \* whether setupContainerQueries has installed a ResizeObserver
    observed,           \* a ResizeObserver notification is waiting to be delivered
    viewportState,      \* EnhancedResponsiveManager.viewportState$.value
    windowThrottle,     \* timer of throttleTime(16) on the window's resize events
    viewportThrottle,   \* timer of throttleTime(50) on the merged notifications
    screenTimeouts,     \* ms left of the pending setTimeout(..., 100) callbacks
    erEvents,           \* events EnhancedResponsiveManager emitted in the last step
    currentBreakpoint,  \* ResponsiveManager.currentBreakpoint
    orientation,        \* ResponsiveManager.orientation
    rmEvents,           \* events ResponsiveManager emitted in the last step
    notices,            \* observation: number of notifications so far
    \* ---- ReactiveEventBus --------------------------------------------------
    subjects,           \* ReactiveEventBus.subjects: the names that have a channel
    observers,          \* per name, the subscribers of the channel, oldest first
    received,           \* observation: per subscriber, the payloads its callback got
    emissions,          \* observation: the calls of emit so far, in order
    dc,                 \* the doubleClick detector: its buffer and the ms left of its window
    derived,            \* observation: the payloads the doubleClick detector emitted
    busNow,             \* ms since the doubleClick detector was subscribed
    \* ---- the browser --------------------------------------------------------
    device,             \* what the browser reports: WebGL, GPU substrings, deviceMemory
    \* ---- ReactiveEventBus: game state, threshold monitors, streak detector ---
    gameState,          \* gameState$.value: the object's identity and its fields
    monitors,           \* per type, a subscribed createThresholdMonitor("health", threshold, type)
    monEvents,          \* observation: per type, what the monitor emitted in the last step
    updates,            \* observation: number of updateGameState calls so far
    streak,             \* createStreakDetector("score", streakLength): channel and pipeline
    streakOut,          \* observation: what the detector's subscription has emitted
    scored,             \* observation: emits on "score" since the detector's subscription
    idle,               \* observation: ms since the last emit on "score" (capped)
    \* ---- SaveManager --------------------------------------------------------
    storage,            \* localStorage.getItem(storageKey)
    saved,              \* observation: the value of the last save that returned true,
                        \* while localStorage has not been changed since
    saveResult,         \* observation: what the last save returned
    loaded,             \* observation: the last load, the item it read and its result
    \* ---- EnhancedEmbedManager and the host page's messages -------------------
    isEmbedded,         \* embedContext.isEmbedded: the parent's listener is installed
    emHeap,             \* the EmbedContext objects made so far, by identity
    emValue,            \* embedContext$.value: the identity of the current object
    emSub,              \* a subscriber of getEmbedContext(): distinctUntilChanged's
                        \* key and the snapshots received, as they were on receipt
    parentMessages,     \* parentMessages$.value
    emEffects,          \* what the listeners did in the last step, in order
    emThrew,            \* a listener raised an uncaught error in the last step
    emLast,             \* observation: the last message event
    emCount,            \* observation: number of message events so far
    \* ---- touch primitives without a start -----------------------------------
    strays,             \* observation: number of touch events so far that belong to
                        \* no contact the recognizers were told the start of
    \* ---- GameStateManager --------------------------------------------------
    gsmState,           \* state$.value
    gsmKeys,            \* distinctUntilChanged of the auto-save and the health
                        \* selection: the identity of the object each saw last
    gsmObjects,         \* number of objects the selectors have made so far
    gsmEvents,          \* events emitted on the bus by the last step, in order
    gsmCount,           \* observation: number of state updates so far
    \* ---- SceneManager and the engine's scene plugin --------------------------
    sceneStack,         \* SceneManager.sceneStack
    sceneData,          \* SceneManager.sceneData: the keys that have data
    engine,             \* game.scene: per scene key "stopped", "running" or "paused"
    scLast              \* observation: the last operation and what it returned

arVars == << arPc, deviceTier, currentSettings, performanceMetrics, clMetrics, ducKey,
             ladderThrottle, emergencyThrottle, memoryPoll, sampleWait, arEvents,
             sinceEmergency, scn, settingsSub, chain >>

tmVars == << activeTouches, touchStartTime, touchStartPos, lastTapTime, holdCalls, tmEvents >>

gmVars == << touches, tapInner, singleTap, tapBuffer, swipeInner, pinchInner, longPress,
             lastPinch, gmEvents >>

rsVars == << win, resizeObserver, observed, viewportState, windowThrottle, viewportThrottle,
             screenTimeouts, erEvents, currentBreakpoint, orientation, rmEvents, notices >>

inputVars == << now, contacts, lastTap, tmVars, gmVars >>

busVars == << subjects, observers, received, emissions, dc, derived, busNow >>

envVars == << device >>

gsVars == << gameState, monitors, monEvents, updates, streak, streakOut, scored, idle >>

svVars == << storage, saved, saveResult, loaded >>

\* the components that stand apart from the renderer, the recognizers, the
\* responsive layer and the event bus
emVars == << isEmbedded, emHeap, emValue, emSub, parentMessages, emEffects, emThrew,
             emLast, emCount >>

strayVars == << strays >>

extVars == << gsVars, svVars, emVars, strayVars >>

gsmVars == << gsmState, gsmKeys, gsmObjects, gsmEvents, gsmCount >>

scVars == << sceneStack, sceneData, engine, scLast >>

appVars == << gsmVars, scVars >>

coreVars == << arVars, inputVars, rsVars, busVars, envVars >>

vars == << arVars, now, contacts, lastTap, tmVars, gmVars, rsVars, busVars, envVars, extVars, appVars >>

\* what the actions of one component leave alone: the other components
arOthers == << inputVars, rsVars, busVars, envVars, extVars, appVars >>

tmOthers == << arVars, gmVars, rsVars, busVars, envVars, extVars, appVars >>

gmOthers == << arVars, tmVars, rsVars, busVars, envVars, extVars, appVars >>

rsOthers == << arVars, inputVars, busVars, envVars, extVars, appVars >>

busOthers == << arVars, inputVars, rsVars, envVars, extVars, appVars >>

gsOthers == << coreVars, svVars, emVars, strayVars, appVars >>

svOthers == << coreVars, gsVars, emVars, strayVars, appVars >>

\* a message's embed-resize reaches the responsive layer's viewport state
emOthers == << arVars, inputVars, busVars, envVars, gsVars, svVars,
               resizeObserver, windowThrottle, viewportThrottle, screenTimeouts,
               currentBreakpoint, orientation, notices, strayVars, appVars >>

strayOthers == << arVars, rsVars, busVars, envVars, gsVars, svVars, emVars, appVars >>

gsmOthers == << coreVars, extVars, scVars >>

scOthers == << coreVars, extVars, gsmVars >>

(***************************************************************************)
(* Bounds of the model                                                     *)
(***************************************************************************)
\* granularity of the renderer's clock, in ms
RenderTick == 1000
\* fuel of the synchronous re-entrant cascade next() -> combineLatest -> apply
MaxCascade == 6
\* granularity of the recognizers' clock, in ms
TouchTick == 100
\* the recognizers' clock stops here, in ms
MaxTime == 700
\* number of contacts (finger down ... finger up) in a behaviour
MaxContacts == 2
\* granularity of the responsive layer's clock, in ms
ViewTick == 10
\* number of setTimeout callbacks of the screen orientation listener pending at once
MaxTimeouts == 2
\* number of notifications (resize, orientation change) in a behaviour
MaxNotices == 3
\* number of calls of emit in a behaviour
MaxEmits == 3
\* granularity of the event bus's clock, in ms
BusTick == 100
\* the event bus's clock stops here, in ms
MaxBusTime == 900
\* Date.now() at construction, in ms
Epoch == 1000
\* number of calls of updateGameState in a behaviour
MaxUpdates == 3
\* largest value of a numeric field of the game state
MaxValue == 4
\* number of emits on the streak detector's channel in a behaviour
MaxScores == 8
\* number of touch events without a start in a behaviour
MaxStrays == 1
\* number of state updates of the GameStateManager in a behaviour
MaxStateUpdates == 3
\* largest coordinate of the player's position, largest score
MaxCoordinate == 1
\* largest number of scenes on the scene stack
MaxStack == 3
\* number of message events in a behaviour
MaxMessages == 3
\* largest number in a saved value
MaxGold == 1
\* the idle time that is still counted, in ms
MaxIdle == 3000
\* granularity of the idle clock, in ms
IdleTick == 500

\* values a published sample can carry
FpsValues == {10, 20, 25, 40, 58, 60}
MemoryValues == {0, 200}

(***************************************************************************)
(* Program constants                                                       *)
(***************************************************************************)
FpsTargetHigh == 58
FpsTargetMedium == 45
FpsTargetLow == 30
MemoryWarning == 150
EmergencyFps == 20
LadderThrottleMs == 1000
EmergencyThrottleMs == 5000
MemoryPollMs == 2000
SamplerWindowMs == 1000
HiddenTargetFPS == 10
BlurTargetFPS == 15
\* TouchManager: config and the limits of a tap in handleTouchEnd
doubleTapDelay == 300
swipeThreshold == 50
holdDelay == 500
TapMaxDuration == 200
TapMaxDistance == 10
\* EnhancedResponsiveManager: throttleTime of the window's resize events and
\* of the merged notifications, delay of the screen orientation listener
WindowThrottleMs == 16
ViewportThrottleMs == 50
ScreenDelayMs == 100
\* ReactiveEventBus.doubleClick: default of timeWindow
timeWindow == 300
\* ReactiveEventBus.createStreakDetector: default of streakLength
streakLength == 3
\* GestureManager: config and the distance limits of the detectors
tapTimeout == 300
doubleTapInterval == 300
longPressDelay == 500
swipeMinDistance == 50
swipeMaxTime == 300
TapMaxMove == 10
DoubleTapMaxDistance == 50
LongPressMaxMove == 10

Tiers == {"low", "mid", "high"}
Qualities == {"low", "medium", "high", "ultra"}

Min(a, b) == IF a < b THEN a ELSE b
Max(a, b) == IF a > b THEN a ELSE b

(***************************************************************************)
(* RenderSettings.  resolution is kept in hundredths (0.5 is 50).          *)
(***************************************************************************)
Settings(q, t, r, aa, p, sh, pp) ==
    [quality |-> q, targetFPS |-> t, resolution |-> r, antialiasing |-> aa,
     particleLimit |-> p, shadowQuality |-> sh, postProcessing |-> pp]

getDefaultSettings == Settings("medium", 60, 100, FALSE, 150, "low", FALSE)

EmergencySettings == Settings("low", 30, 50, FALSE, 25, "off", FALSE)

\* the switch of adjustQualityBasedOnDevice
InitialSettings(tier) ==
    CASE tier = "high" -> Settings("high", 60, 100, TRUE, 300, "high", TRUE)
      [] tier = "mid"  -> Settings("medium", 60, 80, FALSE, 150, "low", FALSE)
      [] tier = "low"  -> Settings("low", 30, 60, FALSE, 50, "off", FALSE)

getSettingsForQuality(base, quality) ==
    CASE quality = "low" ->
           [base EXCEPT !.quality = quality, !.resolution = 50,
                        !.antialiasing = FALSE, !.particleLimit = 50]
      [] quality = "medium" ->
           [base EXCEPT !.quality = quality, !.resolution = 70,
                        !.antialiasing = FALSE, !.particleLimit = 150]
      [] quality = "high" ->
           [base EXCEPT !.quality = quality, !.resolution = 90,
                        !.antialiasing = TRUE, !.particleLimit = 250]
      [] quality = "ultra" ->
           [base EXCEPT !.quality = quality, !.resolution = 100,
                        !.antialiasing = TRUE, !.particleLimit = 400]
      [] OTHER -> base

(***************************************************************************)
(* AdaptivePerformanceMetrics.  thermal is "undefined" or what             *)
(* getThermalState returns; batteryLevel is "undefined" or the "promise"   *)
(* getBatteryLevel returns (never a number).                               *)
(***************************************************************************)
Metrics(f, m, th, b) == [fps |-> f, memory |-> m, thermal |-> th, batteryLevel |-> b]

getInitialMetrics == Metrics(60, 0, "undefined", "undefined")

getThermalState == "normal"

getBatteryLevel == "promise"

\* `metrics.batteryLevel && metrics.batteryLevel < 20`: undefined is falsy and
\* a Promise compared with a number is false
BatteryLow(b) == b \notin {"undefined", "promise"}

\* mutant of FpsAdjust: the low branch forgets the resolution
FpsAdjust_KeepsResolution(metrics, cur, tier) ==
    IF metrics.fps < FpsTargetLow THEN
        [cur EXCEPT !.quality = "low", !.antialiasing = FALSE,
                    !.particleLimit = 50, !.shadowQuality = "off",
                    !.postProcessing = FALSE]
    ELSE IF metrics.fps < FpsTargetMedium THEN
        [cur EXCEPT !.quality = "medium", !.resolution = 70, !.antialiasing = FALSE,
                    !.particleLimit = 100, !.shadowQuality = "low",
                    !.postProcessing = FALSE]
    ELSE IF metrics.fps >= FpsTargetHigh /\ tier = "high" /\ cur.quality # "ultra" THEN
        [cur EXCEPT !.quality = "high", !.resolution = 100, !.antialiasing = TRUE,
                    !.particleLimit = 300, !.shadowQuality = "high",
                    !.postProcessing = TRUE]
    ELSE cur

\* mutant of FpsAdjust: the device tier is tested before the frame rate
FpsAdjust_TierFirst(metrics, cur, tier) ==
    IF metrics.fps >= FpsTargetLow - 5 /\ tier = "high" /\ cur.quality # "ultra" THEN
        [cur EXCEPT !.quality = "high", !.resolution = 100, !.antialiasing = TRUE,
                    !.particleLimit = 300, !.shadowQuality = "high",
                    !.postProcessing = TRUE]
    ELSE IF metrics.fps < FpsTargetLow THEN
        [cur EXCEPT !.quality = "low", !.resolution = 50, !.antialiasing = FALSE,
                    !.particleLimit = 50, !.shadowQuality = "off",
                    !.postProcessing = FALSE]
    ELSE IF metrics.fps < FpsTargetMedium THEN
        [cur EXCEPT !.quality = "medium", !.resolution = 70, !.antialiasing = FALSE,
                    !.particleLimit = 100, !.shadowQuality = "low",
                    !.postProcessing = FALSE]
    ELSE cur

\* calculateOptimalSettings: the FPS-based adjustments
FpsAdjust(metrics, cur, tier) ==
    IF metrics.fps < FpsTargetLow THEN
        [cur EXCEPT !.quality = "low", !.resolution = 50, !.antialiasing = FALSE,
                    !.particleLimit = 50, !.shadowQuality = "off",
                    !.postProcessing = FALSE]
    ELSE IF metrics.fps < FpsTargetMedium THEN
        [cur EXCEPT !.quality = "medium", !.resolution = 70, !.antialiasing = FALSE,
                    !.particleLimit = 100, !.shadowQuality = "low",
                    !.postProcessing = FALSE]
    ELSE IF metrics.fps >= FpsTargetHigh /\ tier = "high" /\ cur.quality # "ultra" THEN
        [cur EXCEPT !.quality = "high", !.resolution = 100, !.antialiasing = TRUE,
                    !.particleLimit = 300, !.shadowQuality = "high",
                    !.postProcessing = TRUE]
    ELSE cur

\* mutant of MemoryAdjust: the particle limit is halved instead of capped
MemoryAdjust_Halves(metrics, s) ==
    IF 10 * metrics.memory > 8 * MemoryWarning THEN
        [s EXCEPT !.particleLimit = s.particleLimit \div 2, !.postProcessing = FALSE]
    ELSE s

\* calculateOptimalSettings: the memory-based adjustments
\* (metrics.memory > memoryWarning * 0.8, in tenths)
MemoryAdjust(metrics, s) ==
    IF 10 * metrics.memory > 8 * MemoryWarning THEN
        [s EXCEPT !.particleLimit = Min(s.particleLimit, 50), !.postProcessing = FALSE]
    ELSE s

\* calculateOptimalSettings: thermal throttling
ThermalAdjust(metrics, s) ==
    IF metrics.thermal \in {"serious", "critical"} THEN
        [s EXCEPT !.quality = "low", !.targetFPS = 30]
    ELSE s

\* calculateOptimalSettings: battery optimization
BatteryAdjust(metrics, s) ==
    IF BatteryLow(metrics.batteryLevel) THEN
        [s EXCEPT !.quality = "low", !.targetFPS = 30, !.postProcessing = FALSE]
    ELSE s

\* calculateOptimalSettings(metrics, currentSettings), with this.deviceTier
calculateOptimalSettings(metrics, cur, tier) ==
    BatteryAdjust(metrics,
        ThermalAdjust(metrics,
            MemoryAdjust(metrics,
                FpsAdjust(metrics, cur, tier))))

(***************************************************************************)
(* Events on the bus.  `live` is an observation: the value of              *)
(* currentSettings$ at the moment the event is emitted.                    *)
(***************************************************************************)
Event(type, data, live) == [type |-> type, data |-> data, live |-> live]

\* the emits of applyRenderSettings once it has decided to apply `settings`
ApplyEvents(prev, settings) ==
    (IF settings.resolution # prev.resolution
        THEN << Event("scale:setZoom", settings.resolution, prev) >> ELSE << >>)
    \o (IF settings.antialiasing # prev.antialiasing
        THEN << Event("renderer:antialiasingChanged", settings.antialiasing, prev) >>
        ELSE << >>)
    \o << Event("particles:limitChanged", settings.particleLimit, prev),
          Event("shadows:qualityChanged", settings.shadowQuality, prev),
          Event("renderer:settingsChanged",
                [previous |-> prev, current |-> settings,
                 reason |-> "performance_adaptation"], prev) >>

(***************************************************************************)
(* The synchronous cascade.  A cascade state `c` holds what the handlers   *)
(* read and write while one browser task runs:                             *)
(*   cur   currentSettings$.value     key  distinctUntilChanged's last     *)
(*   cl    combineLatest's metrics    ev   events emitted so far           *)
(*   fuel  remaining nesting depth    applied  number of replacements      *)
(*   out   what a subscriber of getCurrentSettings() has received so far   *)
(*   depth the calls of applyRenderSettings under way, deepest its maximum *)
(* applyRenderSettings calls currentSettings$.next, whose subscriber is    *)
(* the combineLatest pipeline, which calls applyRenderSettings again.      *)
(* Subject.next hands the value to the observers in the order of their     *)
(* subscription: the combineLatest pipeline, subscribed in the             *)
(* constructor, comes before every subscriber of getCurrentSettings().     *)
(***************************************************************************)
RECURSIVE applyRenderSettings(_, _)
RECURSIVE OnCombineLatest(_)

\* combineLatest emits [cl, cur]; map; distinctUntilChanged; subscribe
OnCombineLatest(c) ==
    LET cand == calculateOptimalSettings(c.cl, c.cur, c.tier)
    IN  IF c.key # << >> /\ c.key[1] = cand THEN c
        ELSE applyRenderSettings([c EXCEPT !.key = << cand >>], cand)

\* currentSettings$.next(value): the combineLatest pipeline first, then the
\* subscriber of getCurrentSettings()
NextSettings(c, value) ==
    [OnCombineLatest([c EXCEPT !.cur = value]) EXCEPT !.out = @ \o << value >>]

applyRenderSettings(c, settings) ==
    IF settings = c.cur \/ c.fuel = 0 THEN c
    ELSE LET d == NextSettings([c EXCEPT !.ev = c.ev \o ApplyEvents(c.cur, settings),
                                         !.fuel = c.fuel - 1,
                                         !.applied = c.applied + 1,
                                         !.depth = c.depth + 1,
                                         !.deepest = Max(c.deepest, c.depth + 1)],
                                settings)
         IN  [d EXCEPT !.depth = c.depth]

emergencyQualityReduction(c) ==
    LET d == applyRenderSettings(c, EmergencySettings)
    IN  [d EXCEPT !.ev = d.ev \o << Event("renderer:emergencyMode", EmergencySettings, d.cur) >>]

(***************************************************************************)
(* Timers: `on` while scheduled, `left` ms until due.  A due timer fires   *)
(* before the clock moves on; a handler that becomes ready at the same     *)
(* instant may run before or after it.                                     *)
(***************************************************************************)
TimerOff == [on |-> FALSE, left |-> 0]
TimerIn(ms) == [on |-> TRUE, left |-> ms]
Due(t) == t.on /\ t.left = 0
Elapse(t, ms) == IF t.on THEN [t EXCEPT !.left = Max(0, t.left - ms)] ELSE t

\* mutant of Throttled: the operator is missing
Throttled_Never(t) == FALSE

\* throttleTime(d), leading only: a value is dropped while the timer runs
Throttled(t) == t.on

\* mutant of EmergencyFilter: fps <= 20
EmergencyFilter_Inclusive(m) == m.fps <= EmergencyFps \/ m.memory > MemoryWarning

\* filter of the emergency pipeline
EmergencyFilter(m) == m.fps < EmergencyFps \/ m.memory > MemoryWarning

Cascade0 ==
    [cur |-> currentSettings, key |-> ducKey, cl |-> clMetrics, tier |-> deviceTier,
     ev |-> << >>, fuel |-> MaxCascade, applied |-> 0,
     out |-> << >>, depth |-> 0, deepest |-> 0]

\* the subscriber of getCurrentSettings() before it subscribes
NoSubscriber == [on |-> FALSE, got |-> << >>, last |-> << >>]

\* what the subscriber has after a step in which it was handed `out`
Handed(out) ==
    IF ~settingsSub.on THEN settingsSub
    ELSE [on |-> TRUE, got |-> out,
          last |-> IF out = << >> THEN settingsSub.last ELSE << out[Len(out)] >>]

(***************************************************************************)
(* detectDeviceTier.  `gl` tells whether a WebGL context was obtained,     *)
(* `gpu` is the set of known substrings the vendor/renderer string         *)
(* includes, `deviceMemory` is navigator.deviceMemory (0 when undefined).  *)
(***************************************************************************)
detectDeviceTier(gl, gpu, deviceMemory) ==
    IF ~gl THEN "low"
    ELSE LET byGpu ==
                 IF gpu \cap {"adreno 6", "mali-g7", "apple a1"} # {} THEN "high"
                 ELSE IF gpu \cap {"adreno 5", "mali-g", "apple a"} # {} THEN "mid"
                 ELSE "low"
         IN  IF deviceMemory # 0 /\ deviceMemory < 3 THEN "low"
             ELSE IF deviceMemory # 0 /\ deviceMemory >= 6 THEN "high"
             ELSE byGpu

GpuInfos == { {}, {"adreno 5"}, {"mali-g"}, {"mali-g", "mali-g7"}, {"adreno 6"},
              {"apple a"}, {"apple a", "apple a1"} }
DeviceMemories == {0, 1, 2, 4, 8}

\* the browsers: without a WebGL context there is no vendor/renderer string
Device(gl, gpu, dm) == [gl |-> gl, gpu |-> gpu, deviceMemory |-> dm]

Devices ==
    { Device(TRUE, gpu, dm) : gpu \in GpuInfos, dm \in DeviceMemories }
    \cup { Device(FALSE, {}, dm) : dm \in DeviceMemories }

\* a browser of each tier
TypicalDevice(tier) ==
    IF tier = "low" THEN Device(FALSE, {}, 0)
    ELSE IF tier = "mid" THEN Device(TRUE, {"adreno 5"}, 0)
    ELSE Device(TRUE, {"adreno 6"}, 0)

(***************************************************************************)
(* Observation of the scenario "fps stream 60, 58, 40, 25, 20 at 1 Hz on a *)
(* high-tier device": n samples of the stream have been published so far,  *)
(* one per sampler window, each let through by throttleTime(1000), with    *)
(* nothing else happening to the controller; `emergencies` counts the runs *)
(* of emergencyQualityReduction among them.                                *)
(***************************************************************************)
ScenarioStream == << 60, 58, 40, 25, 20 >>
ScenarioQuality == << "high", "high", "medium", "low", "low" >>
ScnStart == [n |-> 0, emergencies |-> 0]
ScnDead == [n |-> 0 - 1, emergencies |-> 0]
ScnStep(m, ladder, emergency) ==
    IF /\ scn.n >= 0 /\ scn.n < Len(ScenarioStream)
       /\ m.fps = ScenarioStream[scn.n + 1] /\ m.memory = 0 /\ ladder
    THEN [n |-> scn.n + 1, emergencies |-> scn.emergencies + (IF emergency THEN 1 ELSE 0)]
    ELSE ScnDead

(***************************************************************************)
(* AdaptiveRenderer: initial state (field initialisers and                 *)
(* detectDeviceTier have run) and handlers                                 *)
(***************************************************************************)
ArInit ==
    /\ arPc = "new"
    /\ deviceTier \in { detectDeviceTier(gl, gpu, dm) :
                          gl \in BOOLEAN, gpu \in GpuInfos, dm \in DeviceMemories }
    /\ currentSettings = getDefaultSettings
    /\ performanceMetrics = getInitialMetrics
    /\ clMetrics = getInitialMetrics
    /\ ducKey = << >>
    /\ ladderThrottle = TimerOff
    /\ emergencyThrottle = TimerOff
    /\ memoryPoll = TimerOff
    /\ sampleWait = 0
    /\ arEvents = << >>
    /\ sinceEmergency = EmergencyThrottleMs
    /\ scn = ScnStart
    /\ settingsSub = NoSubscriber
    /\ chain = 0

\* the fields as initialised, before the constructor's body
ArFields ==
    /\ arPc = "fields"
    /\ deviceTier = "mid"
    /\ currentSettings = getDefaultSettings
    /\ performanceMetrics = getInitialMetrics
    /\ clMetrics = getInitialMetrics
    /\ ducKey = << >>
    /\ ladderThrottle = TimerOff
    /\ emergencyThrottle = TimerOff
    /\ memoryPoll = TimerOff
    /\ sampleWait = 0
    /\ arEvents = << >>
    /\ sinceEmergency = EmergencyThrottleMs
    /\ scn = ScnStart
    /\ settingsSub = NoSubscriber
    /\ chain = 0

\* the constructor's call of detectDeviceTier
DetectTier ==
    /\ arPc = "fields"
    /\ arPc' = "new"
    /\ deviceTier' = detectDeviceTier(device.gl, device.gpu, device.deviceMemory)
    /\ UNCHANGED << currentSettings, performanceMetrics, clMetrics, ducKey, ladderThrottle,
                    emergencyThrottle, memoryPoll, sampleWait, arEvents, sinceEmergency,
                    scn, settingsSub, chain >>
    /\ UNCHANGED arOthers

\* adjustQualityBasedOnDevice: currentSettings$.next(initialSettings), which
\* the combineLatest pipeline observes
adjustQualityBasedOnDevice(c) ==
    NextSettings(c, InitialSettings(c.tier))

\* initializeAdaptiveRendering: monitorPerformance, setupPerformanceReactions
\* (both subscriptions receive the BehaviorSubjects' values at once),
\* handleDeviceEvents, adjustQualityBasedOnDevice
initializeAdaptiveRendering ==
    /\ arPc = "new"
    /\ LET subscribed == OnCombineLatest([Cascade0 EXCEPT !.cl = performanceMetrics])
           emergency == EmergencyFilter(performanceMetrics)
           reduced == IF emergency THEN emergencyQualityReduction(subscribed)
                      ELSE subscribed
           adjusted == adjustQualityBasedOnDevice(reduced)
       IN  /\ currentSettings' = adjusted.cur
           /\ ducKey' = adjusted.key
           /\ clMetrics' = adjusted.cl
           /\ arEvents' = adjusted.ev
           /\ emergencyThrottle' = IF emergency THEN TimerIn(EmergencyThrottleMs)
                                   ELSE emergencyThrottle
           /\ sinceEmergency' = IF emergency THEN 0 ELSE sinceEmergency
           /\ chain' = adjusted.deepest
    /\ arPc' = "running"
    /\ ladderThrottle' = TimerIn(LadderThrottleMs)
    /\ memoryPoll' = TimerIn(MemoryPollMs)
    /\ sampleWait' = SamplerWindowMs
    /\ scn' = IF deviceTier = "high" THEN scn ELSE ScnDead
    /\ UNCHANGED << deviceTier, performanceMetrics, settingsSub >>
    /\ UNCHANGED arOthers

\* performanceMetrics$.next(m): the combineLatest pipeline was subscribed
\* first, the emergency pipeline second
PublishMetrics(m) ==
    LET ladder == ~Throttled(ladderThrottle)
        laddered == IF ladder THEN OnCombineLatest([Cascade0 EXCEPT !.cl = m])
                    ELSE Cascade0
        emergency == EmergencyFilter(m) /\ ~Throttled(emergencyThrottle)
        reduced == IF emergency THEN emergencyQualityReduction(laddered) ELSE laddered
    IN  /\ performanceMetrics' = m
        /\ \E r \in {reduced} :
              /\ currentSettings' = r.cur
              /\ ducKey' = r.key
              /\ clMetrics' = r.cl
              /\ arEvents' = r.ev
              /\ settingsSub' = Handed(r.out)
              /\ chain' = r.deepest
        /\ ladderThrottle' = IF ladder THEN TimerIn(LadderThrottleMs) ELSE ladderThrottle
        /\ emergencyThrottle' = IF emergency THEN TimerIn(EmergencyThrottleMs)
                                ELSE emergencyThrottle
        /\ sinceEmergency' = IF emergency THEN 0 ELSE sinceEmergency
        /\ scn' = ScnStep(m, ladder, emergency)

\* the sampler (createPerformanceMonitor) publishes once its window elapsed;
\* monitorPerformance extends the sample and pushes it
Sample ==
    /\ arPc = "running"
    /\ sampleWait = 0
    /\ \E f \in FpsValues, mem \in MemoryValues :
          PublishMetrics(Metrics(f, mem, getThermalState, getBatteryLevel))
    /\ sampleWait' = SamplerWindowMs
    /\ UNCHANGED << arPc, deviceTier, memoryPoll >>
    /\ UNCHANGED arOthers

\* setInterval callback of monitorPerformance: usedJSHeapSize 0 pushes nothing
MemoryPoll ==
    /\ arPc = "running"
    /\ Due(memoryPoll)
    /\ memoryPoll' = TimerIn(MemoryPollMs)
    /\ \E mem \in MemoryValues :
          IF mem # 0
          THEN PublishMetrics([performanceMetrics EXCEPT !.memory = mem])
          ELSE /\ arEvents' = << >>
               /\ settingsSub' = Handed(<< >>)
               /\ chain' = 0
               /\ UNCHANGED << performanceMetrics, currentSettings, ducKey, clMetrics,
                               ladderThrottle, emergencyThrottle, sinceEmergency, scn >>
    /\ UNCHANGED << arPc, deviceTier, sampleWait >>
    /\ UNCHANGED arOthers

\* the timer of throttleTime(1000) fires (leading only: nothing is emitted)
LadderThrottleEnd ==
    /\ Due(ladderThrottle)
    /\ ladderThrottle' = TimerOff
    /\ arEvents' = << >>
    /\ settingsSub' = Handed(<< >>)
    /\ chain' = 0
    /\ UNCHANGED << arPc, deviceTier, currentSettings, performanceMetrics, clMetrics, ducKey,
                    emergencyThrottle, memoryPoll, sampleWait, sinceEmergency, scn >>
    /\ UNCHANGED arOthers

\* the timer of throttleTime(5000) fires
EmergencyThrottleEnd ==
    /\ Due(emergencyThrottle)
    /\ emergencyThrottle' = TimerOff
    /\ arEvents' = << >>
    /\ settingsSub' = Handed(<< >>)
    /\ chain' = 0
    /\ UNCHANGED << arPc, deviceTier, currentSettings, performanceMetrics, clMetrics, ducKey,
                    ladderThrottle, memoryPoll, sampleWait, sinceEmergency, scn >>
    /\ UNCHANGED arOthers

\* a listener of handleDeviceEvents: applyRenderSettings({...current, targetFPS})
DeviceEvent(targetFPS) ==
    LET applied == applyRenderSettings(Cascade0,
                                       [currentSettings EXCEPT !.targetFPS = targetFPS])
    IN  /\ arPc = "running"
        /\ \E r \in {applied} :
              /\ currentSettings' = r.cur
              /\ ducKey' = r.key
              /\ clMetrics' = r.cl
              /\ arEvents' = r.ev
              /\ settingsSub' = Handed(r.out)
              /\ chain' = r.deepest
        /\ scn' = ScnDead
        /\ UNCHANGED << arPc, deviceTier, performanceMetrics, ladderThrottle,
                        emergencyThrottle, memoryPoll, sampleWait, sinceEmergency >>
        /\ UNCHANGED arOthers

\* 'visibilitychange' listener with document.hidden
VisibilityHidden == DeviceEvent(HiddenTargetFPS)

\* 'blur' listener
WindowBlur == DeviceEvent(BlurTargetFPS)

\* the clock moves on by one tick; no due timer is left behind
ArAdvance ==
    /\ arPc = "running"
    /\ ~Due(ladderThrottle) /\ ~Due(emergencyThrottle) /\ ~Due(memoryPoll)
    /\ ladderThrottle' = Elapse(ladderThrottle, RenderTick)
    /\ emergencyThrottle' = Elapse(emergencyThrottle, RenderTick)
    /\ memoryPoll' = Elapse(memoryPoll, RenderTick)
    /\ sampleWait' = Max(0, sampleWait - RenderTick)
    /\ sinceEmergency' = Min(EmergencyThrottleMs, sinceEmergency + RenderTick)
    /\ arEvents' = << >>
    /\ settingsSub' = Handed(<< >>)
    /\ chain' = 0
    /\ scn' = IF sampleWait = 0 THEN ScnDead ELSE scn
    /\ UNCHANGED << arPc, deviceTier, currentSettings, performanceMetrics, clMetrics, ducKey >>
    /\ UNCHANGED arOthers

ArNext ==
    \/ initializeAdaptiveRendering
    \/ Sample
    \/ MemoryPoll
    \/ LadderThrottleEnd
    \/ EmergencyThrottleEnd
    \/ VisibilityHidden
    \/ WindowBlur
    \/ ArAdvance


(***************************************************************************)
(* AdaptiveRenderer: the public API around the current settings            *)
(***************************************************************************)
\* getCurrentSettings().subscribe(...): the BehaviorSubject hands its value
\* to the new subscriber at once
SubscribeSettings ==
    /\ arPc = "running"
    /\ ~settingsSub.on
    /\ settingsSub' = [on |-> TRUE, got |-> << currentSettings >>,
                       last |-> << currentSettings >>]
    /\ arEvents' = << >>
    /\ chain' = 0
    /\ UNCHANGED << arPc, deviceTier, currentSettings, performanceMetrics, clMetrics, ducKey,
                    ladderThrottle, emergencyThrottle, memoryPoll, sampleWait,
                    sinceEmergency, scn >>
    /\ UNCHANGED arOthers

\* the renderer's timers, its sampler and the memory poll
LadderNext ==
    \/ initializeAdaptiveRendering
    \/ Sample
    \/ MemoryPoll
    \/ LadderThrottleEnd
    \/ EmergencyThrottleEnd
    \/ ArAdvance

SettingsNext ==
    \/ LadderNext
    \/ SubscribeSettings
(***************************************************************************)
(* The two gesture recognizers: TouchManager (Phaser pointers, EventBus)   *)
(* and GestureManager (DOM touch events, RxJS).  Both read the same clock. *)
(*                                                                         *)
(* Positions are multiples of (8, 6), at 0, 10, 50 and 60 px from the      *)
(* origin, and the diagonal point (40, 40), for which |dx| = |dy|.         *)
(***************************************************************************)
Point(x, y) == [x |-> x, y |-> y]

Points == { Point(8 * k, 6 * k) : k \in {0, 1, 5, 6} } \cup { Point(40, 40) }

\* where a finger is put down
StartPoints == { Point(0, 0), Point(48, 36) }

\* one finger at a time: the engine hands out its first touch pointer again
PointerIds == {1}

Abs(n) == IF n < 0 THEN 0 - n ELSE n

\* Math.sqrt(dx * dx + dy * dy) in whole pixels: exact between the multiples
\* of (8, 6); to or from the diagonal point the fraction is dropped, which
\* changes no comparison with 10 or 50 (the distances are 8.9, 10, 46.7
\* and 56.6); on one line, as in a pinch, it is the exact distance
getDistance(p1, p2) ==
    LET dx == p2.x - p1.x
        dy == p2.y - p1.y
    IN  CHOOSE d \in Max(Abs(dx), Abs(dy))..(Abs(dx) + Abs(dy)) :
           d * d <= dx * dx + dy * dy /\ dx * dx + dy * dy < (d + 1) * (d + 1)

swipeDirection_TiesHorizontal(dx, dy) ==
    IF Abs(dx) >= Abs(dy)
    THEN IF dx > 0 THEN "right" ELSE "left"
    ELSE IF dy > 0 THEN "down" ELSE "up"

\* direction of a swipe: the dominant axis, vertical when |dx| = |dy|
swipeDirection(dx, dy) ==
    IF Abs(dx) > Abs(dy)
    THEN IF dx > 0 THEN "right" ELSE "left"
    ELSE IF dy > 0 THEN "down" ELSE "up"

\* Date.now()
DateNow == Epoch + now

(***************************************************************************)
(* Observation: one record per contact (finger down ... finger up), in     *)
(* order of the finger going down.  While the contact lasts the record     *)
(* keeps when and where the finger went down; `far` tells whether the      *)
(* finger was ever more than 10 px from there and `multi` whether another  *)
(* finger was down during the contact.  Once the contact is over, `tap`    *)
(* tells whether it lasted under 200 ms and ended under 10 px from its     *)
(* start, and `after` is the earlier contact, if any, that was a tap at    *)
(* the same place and ended less than 300 ms before this tap ended.        *)
(* `events` are the gesture events emitted for the contact.                *)
(***************************************************************************)
Contact(id, p, multi) ==
    [id |-> id, live |-> TRUE, start |-> now, from |-> p, far |-> FALSE,
     multi |-> multi, tap |-> FALSE, after |-> 0, events |-> << >>]

\* the most recent contact that was a tap: none yet
NoTap == [n |-> 0, end |-> 0, at |-> Point(0, 0)]

\* the contact a pointer id stands for at the moment (0: none)
ActiveContact(id) ==
    LET live == { i \in 1..Len(contacts) : contacts[i].id = id /\ contacts[i].live }
    IN  IF live = {} THEN 0 ELSE CHOOSE i \in live : TRUE

Began(cs, id, p) ==
    LET others == { i \in 1..Len(cs) : cs[i].live }
    IN  Append([i \in 1..Len(cs) |-> IF i \in others THEN [cs[i] EXCEPT !.multi = TRUE]
                                      ELSE cs[i]],
               Contact(id, p, others # {}))

Moved(cs, i, p) ==
    [cs EXCEPT ![i].far = @ \/ getDistance(cs[i].from, p) > LongPressMaxMove]

IsTap(c, p) ==
    /\ now - c.start < TapMaxDuration
    /\ getDistance(c.from, p) < TapMaxDistance

Ended(cs, i, p) ==
    [cs EXCEPT ![i].live = FALSE,
               ![i].start = 0,
               ![i].from = Point(0, 0),
               ![i].far = FALSE,
               ![i].tap = IsTap(cs[i], p),
               ![i].after = IF /\ IsTap(cs[i], p)
                               /\ lastTap.n # 0
                               /\ lastTap.at = p
                               /\ now - lastTap.end < doubleTapDelay
                            THEN lastTap.n ELSE 0]

TapEnded(cs, i, p) ==
    IF IsTap(cs[i], p) THEN [n |-> i, end |-> now, at |-> p] ELSE lastTap

\* the most recent tap, forgotten once no later contact can pair with it
StillRecent(t) ==
    IF lastTap.n # 0 /\ t - lastTap.end >= doubleTapDelay THEN NoTap ELSE lastTap

RECURSIVE Credited(_, _, _)
Credited(cs, i, types) ==
    IF types = << >> \/ i = 0 THEN cs
    ELSE Credited([cs EXCEPT ![i].events = Append(@, Head(types))], i, Tail(types))

(***************************************************************************)
(* TouchManager.  Pointers are touch pointers (wasTouch); a pointer goes   *)
(* down only while it is up, and moves or goes up only while it is down.   *)
(* activeTouches holds the live pointer objects: the position kept here is *)
(* the pointer's position, which handleTouchEnd reads.                     *)
(***************************************************************************)
TmEvent(type, id, data) == [type |-> type, id |-> id, data |-> data]

TmTypes(events) == [i \in 1..Len(events) |-> events[i].type]

TmInit ==
    /\ activeTouches = [id \in {} |-> Point(0, 0)]
    /\ touchStartTime = 0
    /\ touchStartPos = Point(0, 0)
    /\ lastTapTime = 0
    /\ holdCalls = {}
    /\ tmEvents = << >>

\* handlePinchStart / handlePinchMove: the distance between the two pointers
handlePinch(type, active) ==
    LET ids == DOMAIN active
    IN  IF Cardinality(ids) # 2 THEN << >>
        ELSE LET a == CHOOSE i \in ids : TRUE
                 b == CHOOSE i \in ids : i # a
             IN  << TmEvent(type, 0, [distance |-> getDistance(active[a], active[b]),
                                      touches |-> ids]) >>

\* handleTap: the event it emits and the lastTapTime it leaves
handleTap(id) ==
    IF DateNow - lastTapTime < doubleTapDelay
    THEN [emit |-> << TmEvent("touch:double-tap", id, << >>) >>, lastTapTime |-> 0]
    ELSE [emit |-> << TmEvent("touch:tap", id, << >>) >>, lastTapTime |-> DateNow]

\* handleSwipe (the angle of the payload is left out)
handleSwipe(id, p) ==
    << TmEvent("touch:swipe", id,
               [direction |-> swipeDirection(p.x - touchStartPos.x, p.y - touchStartPos.y),
                distance |-> getDistance(touchStartPos, p)]) >>

\* handleHold; `scheduledBy` is an observation: the contact whose start
\* scheduled the call
handleHold(call) ==
    << TmEvent("touch:hold", call.id, [scheduledBy |-> call.contact]) >>

\* 'pointerdown'
handleTouchStart(id, p) ==
    /\ id \notin DOMAIN activeTouches
    /\ Len(contacts) < MaxContacts
    /\ LET active == [i \in DOMAIN activeTouches \cup {id} |->
                        IF i = id THEN p ELSE activeTouches[i]]
           size == Cardinality(DOMAIN active)
       IN  /\ activeTouches' = active
           /\ IF size = 1
              THEN /\ touchStartTime' = DateNow
                   /\ touchStartPos' = p
                   /\ holdCalls' = holdCalls \cup
                         { [id |-> id, due |-> now + holdDelay,
                            contact |-> Len(contacts) + 1] }
              ELSE UNCHANGED << touchStartTime, touchStartPos, holdCalls >>
           /\ tmEvents' = << TmEvent("touch:start", id, [touches |-> size]) >> \o
                          (IF size = 2 THEN handlePinch("touch:pinch-start", active)
                           ELSE << >>)
    /\ contacts' = Began(contacts, id, p)
    /\ UNCHANGED << now, lastTap, lastTapTime, tmOthers >>

\* 'pointermove'
handleTouchMove(id, p) ==
    /\ id \in DOMAIN activeTouches
    /\ p # activeTouches[id]
    /\ LET active == [activeTouches EXCEPT ![id] = p]
           size == Cardinality(DOMAIN active)
       IN  /\ activeTouches' = active
           /\ tmEvents' = << TmEvent("touch:move", id, [touches |-> size]) >> \o
                          (IF size = 2 THEN handlePinch("touch:pinch-move", active)
                           ELSE << >>)
    /\ contacts' = Moved(contacts, ActiveContact(id), p)
    /\ UNCHANGED << now, lastTap, touchStartTime, touchStartPos, lastTapTime, holdCalls, tmOthers >>

\* 'pointerup'
handleTouchEnd(id) ==
    /\ id \in DOMAIN activeTouches
    /\ LET p == activeTouches[id]
           touchDuration == DateNow - touchStartTime
           touchDistance == getDistance(touchStartPos, p)
           tapped == IF touchDuration < TapMaxDuration /\ touchDistance < TapMaxDistance
                     THEN handleTap(id)
                     ELSE [emit |-> << >>, lastTapTime |-> lastTapTime]
           swiped == IF touchDistance > swipeThreshold THEN handleSwipe(id, p) ELSE << >>
           remaining == [i \in DOMAIN activeTouches \ {id} |-> activeTouches[i]]
       IN  /\ lastTapTime' = tapped.lastTapTime
           /\ activeTouches' = remaining
           /\ tmEvents' = tapped.emit \o swiped \o
                 << TmEvent("touch:end", id, [touches |-> Cardinality(DOMAIN remaining)]) >>
           /\ contacts' = Ended(Credited(contacts, ActiveContact(id),
                                         TmTypes(tapped.emit \o swiped)),
                                ActiveContact(id), p)
           /\ lastTap' = TapEnded(contacts, ActiveContact(id), p)
    /\ UNCHANGED << now, touchStartTime, touchStartPos, holdCalls, tmOthers >>

\* the callback handed to scene.time.delayedCall(holdDelay, ...) runs
HoldCall(call) ==
    /\ call \in holdCalls
    /\ call.due = now
    /\ holdCalls' = holdCalls \ {call}
    /\ IF call.id \in DOMAIN activeTouches
       THEN /\ tmEvents' = handleHold(call)
            /\ contacts' = Credited(contacts, ActiveContact(call.id), << "touch:hold" >>)
       ELSE /\ tmEvents' = << >>
            /\ UNCHANGED contacts
    /\ UNCHANGED << now, lastTap, activeTouches, touchStartTime, touchStartPos, lastTapTime, tmOthers >>

\* time passes, up to the next pending callback
TmAdvance ==
    /\ now < MaxTime
    /\ \A call \in holdCalls : call.due > now
    /\ now' = Min(now + TouchTick,
                  IF holdCalls = {} THEN now + TouchTick
                  ELSE CHOOSE d \in { c.due : c \in holdCalls } :
                          \A c \in holdCalls : d <= c.due)
    /\ tmEvents' = << >>
    /\ lastTap' = StillRecent(now')
    /\ UNCHANGED << contacts, activeTouches, touchStartTime, touchStartPos, lastTapTime,
                    holdCalls, tmOthers >>

TmNext ==
    \/ \E id \in PointerIds, p \in StartPoints : handleTouchStart(id, p)
    \/ \E id \in PointerIds, p \in Points : handleTouchMove(id, p)
    \/ \E id \in PointerIds : handleTouchEnd(id)
    \/ \E call \in holdCalls : HoldCall(call)
    \/ TmAdvance

(***************************************************************************)
(* GestureManager.  Each detector is a pipeline over the DOM touch events; *)
(* an inner subscription of switchMap is << >> when there is none and      *)
(* << r >> when there is one.  The listeners of one DOM event run in the   *)
(* order the detectors were set up: tap, swipe, pinch, long press.         *)
(***************************************************************************)
\* emitGesture: gestureEvents$.next(event) and eventBus.emit('gesture:' + type);
\* `for` is an observation: the contacts the gesture is emitted for
emitGesture(type, data, for) == [type |-> type, data |-> data, for |-> for]

GmTypes(events, n) ==
    LET mine == SelectSeq(events, LAMBDA e : n \in e.for)
    IN  [i \in 1..Len(mine) |-> mine[i].type]

RECURSIVE CreditedAll(_, _, _)
CreditedAll(cs, events, n) ==
    IF n = 0 THEN cs
    ELSE CreditedAll(Credited(cs, n, GmTypes(events, n)), events, n - 1)

GmInit ==
    /\ touches = << >>
    /\ tapInner = << >>
    /\ singleTap = << >>
    /\ tapBuffer = [buffer |-> << >>, due |-> doubleTapInterval]
    /\ swipeInner = << >>
    /\ pinchInner = << >>
    /\ lastPinch = << >>
    /\ longPress = << >>
    /\ gmEvents = << >>

TouchOf(ts, id) == CHOOSE i \in 1..Len(ts) : ts[i].id = id

\* getCenter
getCenter(p1, p2) == Point((p1.x + p2.x) \div 2, (p1.y + p2.y) \div 2)

\* the scale of a pinch is currentDistance / startDistance, kept as a fraction
ScaleSame(a, b) ==
    /\ a.den # 0
    /\ 100 * Abs(a.num - b.num) < a.den

\* distinctUntilChanged keeps the value it let through last
distinctKey_LastObserved(key, scale, passed) == << scale >>

distinctKey(key, scale, passed) == IF passed THEN << scale >> ELSE key

ScaleAboveOne(s) == IF s.den = 0 THEN s.num > 0 ELSE s.num > s.den

\* 'touchstart'
touchStart(id, p) ==
    /\ \A i \in 1..Len(touches) : touches[i].id # id
    /\ Len(contacts) < MaxContacts
    /\ LET after == Append(touches, [id |-> id, pos |-> p])
           n == Len(contacts) + 1
       IN  /\ touches' = after
           /\ IF Len(after) = 1
              THEN /\ tapInner' = << [start |-> p, t0 |-> now, due |-> now + tapTimeout] >>
                   /\ swipeInner' = << [start |-> p, t0 |-> now,
                                        due |-> now + swipeMaxTime] >>
                   /\ longPress' = << [start |-> p, due |-> now + longPressDelay,
                                       n |-> n] >>
              ELSE UNCHANGED << tapInner, swipeInner, longPress >>
           /\ IF Len(after) = 2
              THEN pinchInner' =
                      << [startDistance |-> getDistance(after[1].pos, after[2].pos),
                          startCenter |-> getCenter(after[1].pos, after[2].pos),
                          key |-> << >>] >>
              ELSE UNCHANGED pinchInner
           /\ lastPinch' = IF Len(after) = 2 THEN << >> ELSE lastPinch
    /\ gmEvents' = << >>
    /\ contacts' = Began(contacts, id, p)
    /\ UNCHANGED << now, lastTap, singleTap, tapBuffer, gmOthers >>

\* 'touchmove'
touchMove(id, p) ==
    /\ \E i \in 1..Len(touches) : touches[i].id = id /\ touches[i].pos # p
    /\ LET after == [touches EXCEPT ![TouchOf(touches, id)].pos = p]
           scale == [num |-> getDistance(after[1].pos, after[2].pos),
                     den |-> pinchInner[1].startDistance]
           pinched == /\ pinchInner # << >>
                      /\ Len(after) = 2
                      /\ \/ pinchInner[1].key = << >>
                         \/ ~ScaleSame(pinchInner[1].key[1], scale)
       IN  /\ touches' = after
           /\ pinchInner' = IF pinchInner # << >> /\ Len(after) = 2
                            THEN << [pinchInner[1] EXCEPT
                                       !.key = distinctKey(@, scale, pinched)] >>
                            ELSE pinchInner
           /\ lastPinch' = IF pinched THEN << scale >> ELSE lastPinch
           /\ gmEvents' = IF pinched
                          THEN << emitGesture("pinch",
                                     [scale |-> scale,
                                      center |-> getCenter(after[1].pos, after[2].pos),
                                      startCenter |-> pinchInner[1].startCenter,
                                      zoom |-> IF ScaleAboveOne(scale) THEN "in" ELSE "out"],
                                     {}) >>
                          ELSE << >>
           /\ longPress' = IF /\ longPress # << >>
                              /\ getDistance(longPress[1].start, after[1].pos)
                                    > LongPressMaxMove
                           THEN << >> ELSE longPress
    /\ contacts' = Moved(contacts, ActiveContact(id), p)
    /\ UNCHANGED << now, lastTap, tapInner, singleTap, tapBuffer, swipeInner, gmOthers >>

\* 'touchend'.  tap$ emits when its inner subscription is still there and the
\* touch ended under 10 px from the start: the single tap detector restarts
\* its timer and the double tap detector buffers the tap
touchEnd(id) ==
    /\ \E i \in 1..Len(touches) : touches[i].id = id
    /\ LET p == touches[TouchOf(touches, id)].pos
           after == SelectSeq(touches, LAMBDA t : t.id # id)
           n == ActiveContact(id)
           tapped == /\ tapInner # << >>
                     /\ getDistance(tapInner[1].start, p) < TapMaxMove
           tapData == [touch |-> p, duration |-> now - tapInner[1].t0, n |-> n]
           swiped == /\ swipeInner # << >>
                     /\ getDistance(swipeInner[1].start, p) >= swipeMinDistance
           deltaX == p.x - swipeInner[1].start.x
           deltaY == p.y - swipeInner[1].start.y
           emitted == IF swiped
                      THEN << emitGesture("swipe",
                                 [direction |-> swipeDirection(deltaX, deltaY),
                                  distance |-> getDistance(swipeInner[1].start, p),
                                  deltaX |-> deltaX, deltaY |-> deltaY,
                                  duration |-> now - swipeInner[1].t0],
                                 {n}) >>
                      ELSE << >>
       IN  /\ touches' = after
           /\ singleTap' = IF tapped
                           THEN << [tapData |-> tapData, due |-> now + doubleTapInterval] >>
                           ELSE singleTap
           /\ tapBuffer' = IF tapped
                           THEN [tapBuffer EXCEPT !.buffer = Append(@, tapData)]
                           ELSE tapBuffer
           /\ pinchInner' = IF Len(after) < 2 THEN << >> ELSE pinchInner
           /\ lastPinch' = IF Len(after) < 2 THEN << >> ELSE lastPinch
           /\ longPress' = << >>
           /\ gmEvents' = emitted
           /\ contacts' = Ended(Credited(contacts, n, GmTypes(emitted, n)), n, p)
           /\ lastTap' = TapEnded(contacts, n, p)
    /\ UNCHANGED << now, tapInner, swipeInner, gmOthers >>

\* timer(tapTimeout) of takeUntil: tap$ stops listening for the touch's end
TapTimeout ==
    /\ tapInner # << >>
    /\ tapInner[1].due = now
    /\ tapInner' = << >>
    /\ gmEvents' = << >>
    /\ UNCHANGED << now, contacts, lastTap, touches, singleTap, tapBuffer, swipeInner,
                    pinchInner, lastPinch, longPress, gmOthers >>

\* timer(swipeMaxTime) of takeUntil: the swipe detector stops listening
SwipeTimeout ==
    /\ swipeInner # << >>
    /\ swipeInner[1].due = now
    /\ swipeInner' = << >>
    /\ gmEvents' = << >>
    /\ UNCHANGED << now, contacts, lastTap, touches, tapInner, singleTap, tapBuffer,
                    pinchInner, lastPinch, longPress, gmOthers >>

\* timer(doubleTapInterval) of the single tap detector
SingleTapTimer ==
    /\ singleTap # << >>
    /\ singleTap[1].due = now
    /\ LET tapData == singleTap[1].tapData
           emitted == << emitGesture("tap", [position |-> tapData.touch,
                                             duration |-> tapData.duration],
                                     {tapData.n}) >>
       IN  /\ gmEvents' = emitted
           /\ contacts' = CreditedAll(contacts, emitted, Len(contacts))
    /\ singleTap' = << >>
    /\ UNCHANGED << now, lastTap, touches, tapInner, tapBuffer, swipeInner, pinchInner, lastPinch,
                    longPress, gmOthers >>

\* bufferTime(doubleTapInterval): the buffer is handed on and a new one opened
BufferTime ==
    /\ tapBuffer.due = now
    /\ LET taps == tapBuffer.buffer
           doubled == /\ Len(taps) = 2
                      /\ getDistance(taps[1].touch, taps[2].touch) < DoubleTapMaxDistance
           emitted == IF doubled
                      THEN << emitGesture("double-tap", [position |-> taps[2].touch],
                                          {taps[1].n, taps[2].n}) >>
                      ELSE << >>
       IN  /\ gmEvents' = emitted
           /\ contacts' = CreditedAll(contacts, emitted, Len(contacts))
    /\ tapBuffer' = [buffer |-> << >>, due |-> now + doubleTapInterval]
    /\ UNCHANGED << now, lastTap, touches, tapInner, singleTap, swipeInner, pinchInner, lastPinch,
                    longPress, gmOthers >>

\* timer(longPressDelay) of the long press detector
LongPressTimer ==
    /\ longPress # << >>
    /\ longPress[1].due = now
    /\ LET emitted == << emitGesture("long-press",
                                     [position |-> longPress[1].start,
                                      duration |-> longPressDelay],
                                     {longPress[1].n}) >>
       IN  /\ gmEvents' = emitted
           /\ contacts' = CreditedAll(contacts, emitted, Len(contacts))
    /\ longPress' = << >>
    /\ UNCHANGED << now, lastTap, touches, tapInner, singleTap, tapBuffer, swipeInner,
                    pinchInner, lastPinch, gmOthers >>

\* the times at which a timer of the detectors is due
GmDue ==
    { tapBuffer.due } \cup
    { t[1].due : t \in { tapInner, singleTap, swipeInner, longPress } \ { << >> } }

\* time passes, up to the next timer
GmAdvance ==
    /\ now < MaxTime
    /\ \A d \in GmDue : d > now
    /\ now' = Min(now + TouchTick, CHOOSE d \in GmDue : \A e \in GmDue : d <= e)
    /\ gmEvents' = << >>
    /\ lastTap' = StillRecent(now')
    /\ UNCHANGED << contacts, touches, tapInner, singleTap, tapBuffer, swipeInner,
                    pinchInner, lastPinch, longPress, gmOthers >>

GmNext ==
    \/ \E id \in PointerIds, p \in StartPoints : touchStart(id, p)
    \/ \E id \in PointerIds, p \in Points : touchMove(id, p)
    \/ \E id \in PointerIds : touchEnd(id)
    \/ TapTimeout
    \/ SwipeTimeout
    \/ SingleTapTimer
    \/ BufferTime
    \/ LongPressTimer
    \/ GmAdvance

\* Two fingers on one line: the first rests, the second moves in 1 px steps
\* 200 px and more away, so that every distance is a whole number of pixels
\* and every scale a multiple of 1/200 or so.  For these inputs the doubles
\* currentDistance / startDistance and their difference compare with 0.01
\* as the exact fractions do (1.01 - 1 is 0.010000000000000009 in doubles)
PinchIds == {1, 2}

PinchPoints(id) ==
    IF id = 1 THEN { Point(0, 0) } ELSE { Point(x, 0) : x \in 200..202 }

PinchStarts(id) == IF id = 1 THEN { Point(0, 0) } ELSE { Point(200, 0) }

\* The clock of the two-finger runs: far enough for the long-press timer
\* (500 ms) of a resting finger to run out
MaxPinchTime == 500

PinchAdvance == now < MaxPinchTime /\ GmAdvance

PinchNext ==
    \/ \E id \in PinchIds : \E p \in PinchStarts(id) : touchStart(id, p)
    \/ \E id \in PinchIds : \E p \in PinchPoints(id) : touchMove(id, p)
    \/ \E id \in PinchIds : touchEnd(id)
    \/ TapTimeout
    \/ SwipeTimeout
    \/ SingleTapTimer
    \/ BufferTime
    \/ LongPressTimer
    \/ PinchAdvance

(***************************************************************************)
(* Touch events that belong to no contact a recognizer was told the start  *)
(* of: a pointer the TouchManager has not seen go down, a touch that is    *)
(* not among the touches on the GestureManager's element.                  *)
(***************************************************************************)
StrayIds == {2}

Stray == strays < MaxStrays /\ strays' = strays + 1

\* 'pointermove' of a pointer that is not in activeTouches: handleTouchMove
\* returns at once
StrayPointerMove(id, p) ==
    /\ id \notin DOMAIN activeTouches
    /\ Stray
    /\ tmEvents' = << >>
    /\ gmEvents' = << >>
    /\ UNCHANGED << now, contacts, lastTap, activeTouches, touchStartTime, touchStartPos,
                    lastTapTime, holdCalls, touches, tapInner, singleTap, tapBuffer,
                    swipeInner, pinchInner, longPress, lastPinch, strayOthers >>

\* 'pointerup' of a pointer that is not in activeTouches: handleTouchEnd
\* returns at once
StrayPointerUp(id, p) ==
    /\ id \notin DOMAIN activeTouches
    /\ Stray
    /\ tmEvents' = << >>
    /\ gmEvents' = << >>
    /\ UNCHANGED << now, contacts, lastTap, activeTouches, touchStartTime, touchStartPos,
                    lastTapTime, holdCalls, touches, tapInner, singleTap, tapBuffer,
                    swipeInner, pinchInner, longPress, lastPinch, strayOthers >>

\* 'touchmove' whose changed touch is not among the touches: the pinch
\* detector maps the event's touches, the long press detector measures the
\* first of them
StrayTouchMove(id, p) ==
    /\ \A i \in 1..Len(touches) : touches[i].id # id
    /\ Stray
    /\ LET scale == [num |-> getDistance(touches[1].pos, touches[2].pos),
                     den |-> pinchInner[1].startDistance]
           pinched == /\ pinchInner # << >>
                      /\ Len(touches) = 2
                      /\ \/ pinchInner[1].key = << >>
                         \/ ~ScaleSame(pinchInner[1].key[1], scale)
       IN  /\ pinchInner' = IF pinchInner # << >> /\ Len(touches) = 2
                            THEN << [pinchInner[1] EXCEPT
                                       !.key = distinctKey(@, scale, pinched)] >>
                            ELSE pinchInner
           /\ lastPinch' = IF pinched THEN << scale >> ELSE lastPinch
           /\ gmEvents' = IF pinched
                          THEN << emitGesture("pinch",
                                     [scale |-> scale,
                                      center |-> getCenter(touches[1].pos, touches[2].pos),
                                      startCenter |-> pinchInner[1].startCenter,
                                      zoom |-> IF ScaleAboveOne(scale) THEN "in" ELSE "out"],
                                     {}) >>
                          ELSE << >>
           /\ longPress' = IF /\ longPress # << >>
                              /\ touches # << >>
                              /\ getDistance(longPress[1].start, touches[1].pos)
                                    > LongPressMaxMove
                           THEN << >> ELSE longPress
    /\ tmEvents' = << >>
    /\ UNCHANGED << now, contacts, lastTap, activeTouches, touchStartTime, touchStartPos,
                    lastTapTime, holdCalls, touches, tapInner, singleTap, tapBuffer,
                    swipeInner, strayOthers >>

\* 'touchend' whose changed touch is not among the touches: every detector
\* that listens to touchEnd$ gets it
StrayTouchEnd(id, p) ==
    /\ \A i \in 1..Len(touches) : touches[i].id # id
    /\ Stray
    /\ LET tapped == /\ tapInner # << >>
                     /\ getDistance(tapInner[1].start, p) < TapMaxMove
           tapData == [touch |-> p, duration |-> now - tapInner[1].t0, n |-> 0]
           swiped == /\ swipeInner # << >>
                     /\ getDistance(swipeInner[1].start, p) >= swipeMinDistance
           deltaX == p.x - swipeInner[1].start.x
           deltaY == p.y - swipeInner[1].start.y
       IN  /\ singleTap' = IF tapped
                           THEN << [tapData |-> tapData, due |-> now + doubleTapInterval] >>
                           ELSE singleTap
           /\ tapBuffer' = IF tapped
                           THEN [tapBuffer EXCEPT !.buffer = Append(@, tapData)]
                           ELSE tapBuffer
           /\ gmEvents' = IF swiped
                          THEN << emitGesture("swipe",
                                     [direction |-> swipeDirection(deltaX, deltaY),
                                      distance |-> getDistance(swipeInner[1].start, p),
                                      deltaX |-> deltaX, deltaY |-> deltaY,
                                      duration |-> now - swipeInner[1].t0],
                                     {}) >>
                          ELSE << >>
    /\ pinchInner' = IF Len(touches) < 2 THEN << >> ELSE pinchInner
    /\ lastPinch' = IF Len(touches) < 2 THEN << >> ELSE lastPinch
    /\ longPress' = << >>
    /\ tmEvents' = << >>
    /\ UNCHANGED << now, contacts, lastTap, activeTouches, touchStartTime, touchStartPos,
                    lastTapTime, holdCalls, touches, tapInner, swipeInner, strayOthers >>

\* the GestureManager with one finger, and the touch events without a start
\* that reach either recognizer
StrayNext ==
    \/ \E id \in PointerIds, p \in StartPoints : touchStart(id, p)
    \/ \E id \in PointerIds, p \in Points : touchMove(id, p)
    \/ \E id \in PointerIds : touchEnd(id)
    \/ TapTimeout
    \/ SwipeTimeout
    \/ SingleTapTimer
    \/ BufferTime
    \/ LongPressTimer
    \/ GmAdvance
    \/ \E id \in StrayIds, p \in StartPoints : StrayPointerMove(id, p)
    \/ \E id \in StrayIds, p \in StartPoints : StrayPointerUp(id, p)
    \/ \E id \in StrayIds, p \in StartPoints : StrayTouchMove(id, p)
    \/ \E id \in StrayIds, p \in StartPoints : StrayTouchEnd(id, p)

(***************************************************************************)
(* The responsive layer: EnhancedResponsiveManager and ResponsiveManager,  *)
(* both listening to the same window.  Fields of the viewport state that   *)
(* come from navigator and screen (device type, scale factor, embedding,   *)
(* safe area) do not change while the page lives and are left out.         *)
(***************************************************************************)
Size(w, h) == [width |-> w, height |-> h]

\* window sizes the page is given: phone, tablet and two desktop windows
Sizes == { Size(375, 667), Size(834, 1112), Size(1400, 900), Size(1420, 900) }

Rotated(s) == Size(s.height, s.width)

\* EnhancedResponsiveManager.breakpoints
breakpoints ==
    [mobile_xs |-> 320, mobile_sm |-> 375, mobile_md |-> 414, mobile_lg |-> 480,
     tablet_sm |-> 600, tablet_md |-> 768, tablet_lg |-> 834, tablet_xl |-> 1024,
     tablet_pro |-> 1194, tablet_pro_xl |-> 1366,
     desktop_sm |-> 1280, desktop_md |-> 1440, desktop_lg |-> 1680, desktop_xl |-> 1920,
     desktop_xxl |-> 2560]

\* detectBreakpoint
detectBreakpoint(width) ==
    LET bp == breakpoints
    IN  IF width >= bp.desktop_xxl THEN "desktop_xxl"
        ELSE IF width >= bp.desktop_xl THEN "desktop_xl"
        ELSE IF width >= bp.desktop_lg THEN "desktop_lg"
        ELSE IF width >= bp.desktop_md THEN "desktop_md"
        ELSE IF width >= bp.desktop_sm THEN "desktop_sm"
        ELSE IF width >= bp.tablet_pro_xl THEN "tablet_pro_xl"
        ELSE IF width >= bp.tablet_pro THEN "tablet_pro"
        ELSE IF width >= bp.tablet_xl THEN "tablet_xl"
        ELSE IF width >= bp.tablet_lg THEN "tablet_lg"
        ELSE IF width >= bp.tablet_md THEN "tablet_md"
        ELSE IF width >= bp.tablet_sm THEN "tablet_sm"
        ELSE IF width >= bp.mobile_lg THEN "mobile_lg"
        ELSE IF width >= bp.mobile_md THEN "mobile_md"
        ELSE IF width >= bp.mobile_sm THEN "mobile_sm"
        ELSE "mobile_xs"

\* getOrientation (both managers)
getOrientation(s) == IF s.height > s.width THEN "portrait" ELSE "landscape"

RsEvent(type, data) == [type |-> type, data |-> data]

\* getInitialViewportState
getInitialViewportState(s) ==
    [width |-> s.width, height |-> s.height, orientation |-> "landscape",
     breakpoint |-> "desktop_md"]

\* updateViewportState: the state it publishes and the events it emits
updateViewportState(s, previousState) ==
    LET newState == [width |-> s.width, height |-> s.height,
                     orientation |-> getOrientation(s),
                     breakpoint |-> detectBreakpoint(s.width)]
    IN  [state |-> newState,
         emit |->
            (IF newState.breakpoint # previousState.breakpoint
             THEN << RsEvent("responsive:breakpointChange",
                             [from |-> previousState.breakpoint,
                              to |-> newState.breakpoint]) >>
             ELSE << >>)
            \o
            (IF newState.orientation # previousState.orientation
             THEN << RsEvent("responsive:orientationChange",
                             [from |-> previousState.orientation,
                              to |-> newState.orientation]) >>
             ELSE << >>)]

\* ResponsiveManager.breakpoints
RmMobile == 768
RmTablet == 1024

\* ResponsiveManager.getBreakpoint
getBreakpoint(s) ==
    IF s.width < RmMobile THEN "mobile"
    ELSE IF s.width < RmTablet THEN "tablet"
    ELSE "desktop"

\* ResponsiveManager.checkOrientation: the event it emits
checkOrientation(s) ==
    << RsEvent("orientation:change", [orientation |-> getOrientation(s)]) >>

\* ResponsiveManager.handleResize: the fields it leaves and the events it emits
handleResize(s, bp, o) ==
    [currentBreakpoint |-> getBreakpoint(s),
     orientation |-> getOrientation(s),
     emit |->
        (IF getBreakpoint(s) # bp
         THEN << RsEvent("responsive:breakpoint-change",
                         [breakpoint |-> getBreakpoint(s)]) >>
         ELSE << >>)
        \o
        (IF getOrientation(s) # o
         THEN << RsEvent("orientation:change", [orientation |-> getOrientation(s)]) >>
         ELSE << >>)]

\* both managers as constructed, in a window of one of the sizes; a
\* ResizeObserver delivers a first notification when it starts observing
RsInit ==
    /\ win \in Sizes
    /\ resizeObserver \in BOOLEAN
    /\ observed = resizeObserver
    /\ LET first == updateViewportState(win, getInitialViewportState(win))
       IN  /\ viewportState = first.state
           /\ erEvents = first.emit
    /\ windowThrottle = TimerOff
    /\ viewportThrottle = TimerOff
    /\ screenTimeouts = {}
    /\ currentBreakpoint = getBreakpoint(win)
    /\ orientation = getOrientation(win)
    /\ rmEvents = checkOrientation(win)
    /\ notices = 0

\* one more notification from the window, the screen or the game
Notice == notices < MaxNotices /\ notices' = notices + 1

\* the subscriber of merge(...).pipe(throttleTime(50)), given whether a
\* notification arrives at the merge
Notified(s, arrives) ==
    LET passes == arrives /\ ~Throttled(viewportThrottle)
        next == updateViewportState(s, viewportState)
    IN  /\ viewportThrottle' = IF passes THEN TimerIn(ViewportThrottleMs)
                               ELSE viewportThrottle
        /\ viewportState' = IF passes THEN next.state ELSE viewportState
        /\ erEvents' = IF passes THEN next.emit ELSE << >>

\* the window's 'resize' event, after the window took size s
WindowResize(s) ==
    /\ s # win
    /\ Notice
    /\ win' = s
    /\ observed' = resizeObserver
    /\ LET rm == handleResize(s, currentBreakpoint, orientation)
       IN  /\ currentBreakpoint' = rm.currentBreakpoint
           /\ orientation' = rm.orientation
           /\ rmEvents' = rm.emit
    /\ windowThrottle' = IF Throttled(windowThrottle) THEN windowThrottle
                         ELSE TimerIn(WindowThrottleMs)
    /\ Notified(s, ~Throttled(windowThrottle))
    /\ UNCHANGED << resizeObserver, screenTimeouts, rsOthers >>

\* the window's 'orientationchange' event; the window has turned or (a half
\* turn, or a browser that reports the new size later) kept its size
OrientationChange(turned) ==
    LET s == IF turned THEN Rotated(win) ELSE win
        rm == handleResize(s, currentBreakpoint, getOrientation(s))
    IN  /\ Notice
        /\ win' = s
        /\ observed' = (observed \/ (turned /\ s # win /\ resizeObserver))
        /\ currentBreakpoint' = rm.currentBreakpoint
        /\ orientation' = rm.orientation
        /\ rmEvents' = checkOrientation(s) \o rm.emit
        /\ Notified(s, TRUE)
        /\ UNCHANGED << resizeObserver, windowThrottle, screenTimeouts, rsOthers >>

\* the 'resize' event of window.visualViewport (an on-screen keyboard)
VisualViewportResize ==
    /\ Notice
    /\ Notified(win, TRUE)
    /\ rmEvents' = << >>
    /\ UNCHANGED << win, resizeObserver, observed, windowThrottle, screenTimeouts,
                    currentBreakpoint, orientation, rsOthers >>

\* the 'resize' event of the game's scale manager: ResponsiveManager.handleResize
ScaleResize ==
    /\ Notice
    /\ LET rm == handleResize(win, currentBreakpoint, orientation)
       IN  /\ currentBreakpoint' = rm.currentBreakpoint
           /\ orientation' = rm.orientation
           /\ rmEvents' = rm.emit
    /\ erEvents' = << >>
    /\ UNCHANGED << win, resizeObserver, observed, viewportState, windowThrottle,
                    viewportThrottle, screenTimeouts, rsOthers >>

\* the 'change' event of screen.orientation
ScreenOrientationChange ==
    /\ Notice
    /\ Cardinality(screenTimeouts) < MaxTimeouts
    /\ screenTimeouts' = screenTimeouts \cup { ScreenDelayMs }
    /\ erEvents' = << >>
    /\ rmEvents' = << >>
    /\ UNCHANGED << win, resizeObserver, observed, viewportState, windowThrottle,
                    viewportThrottle, currentBreakpoint, orientation, rsOthers >>

\* the callback of setTimeout(() => this.updateViewportState(), 100)
ScreenTimeout ==
    /\ 0 \in screenTimeouts
    /\ screenTimeouts' = screenTimeouts \ { 0 }
    /\ LET next == updateViewportState(win, viewportState)
       IN  /\ viewportState' = next.state
           /\ erEvents' = next.emit
    /\ rmEvents' = << >>
    /\ UNCHANGED << notices, win, resizeObserver, observed, windowThrottle, viewportThrottle,
                    currentBreakpoint, orientation, rsOthers >>

\* the ResizeObserver's callback: handleContainerResize
handleContainerResize ==
    /\ observed
    /\ observed' = FALSE
    /\ LET currentState == viewportState
           next == updateViewportState(win, currentState)
       IN  IF currentState.width # win.width \/ currentState.height # win.height
           THEN /\ viewportState' = next.state
                /\ erEvents' = next.emit \o
                      << RsEvent("responsive:containerResize",
                                 [width |-> win.width, height |-> win.height,
                                  previousWidth |-> currentState.width,
                                  previousHeight |-> currentState.height]) >>
           ELSE /\ viewportState' = viewportState
                /\ erEvents' = << >>
    /\ rmEvents' = << >>
    /\ UNCHANGED << notices, win, resizeObserver, windowThrottle, viewportThrottle, screenTimeouts,
                    currentBreakpoint, orientation, rsOthers >>

\* the timer of throttleTime(16) fires
WindowThrottleEnd ==
    /\ Due(windowThrottle)
    /\ windowThrottle' = TimerOff
    /\ erEvents' = << >>
    /\ rmEvents' = << >>
    /\ UNCHANGED << notices, win, resizeObserver, observed, viewportState, viewportThrottle,
                    screenTimeouts, currentBreakpoint, orientation, rsOthers >>

\* the timer of throttleTime(50) fires
ViewportThrottleEnd ==
    /\ Due(viewportThrottle)
    /\ viewportThrottle' = TimerOff
    /\ erEvents' = << >>
    /\ rmEvents' = << >>
    /\ UNCHANGED << notices, win, resizeObserver, observed, viewportState, windowThrottle,
                    screenTimeouts, currentBreakpoint, orientation, rsOthers >>

\* ms left of the timers that run
RsLeft ==
    screenTimeouts \cup
    { t.left : t \in { x \in { windowThrottle, viewportThrottle } : x.on } }

\* time passes, up to the next timer
RsAdvance ==
    /\ RsLeft # {}
    /\ 0 \notin RsLeft
    /\ LET ms == Min(ViewTick, CHOOSE d \in RsLeft : \A e \in RsLeft : d <= e)
       IN  /\ windowThrottle' = Elapse(windowThrottle, ms)
           /\ viewportThrottle' = Elapse(viewportThrottle, ms)
           /\ screenTimeouts' = { d - ms : d \in screenTimeouts }
    /\ erEvents' = << >>
    /\ rmEvents' = << >>
    /\ UNCHANGED << notices, win, resizeObserver, observed, viewportState, currentBreakpoint,
                    orientation, rsOthers >>

RsNext ==
    \/ \E s \in Sizes : WindowResize(s)
    \/ \E turned \in BOOLEAN : OrientationChange(turned)
    \/ VisualViewportResize
    \/ ScaleResize
    \/ ScreenOrientationChange
    \/ ScreenTimeout
    \/ handleContainerResize
    \/ WindowThrottleEnd
    \/ ViewportThrottleEnd
    \/ RsAdvance

(***************************************************************************)
(* ReactiveEventBus: stream, emit and the doubleClick detector.  A payload *)
(* is the number of the emit call that carried it, so the order of the     *)
(* numbers is the order of emission.  Each stream(name) call wraps the one *)
(* Subject of the name in its own share(), which hands every value on as   *)
(* it arrives: the subscribers of a name are kept as one list.             *)
(***************************************************************************)
EventNames == {"click", "other"}

Subscribers == 1..3

\* subscriber 1 answers a payload by emitting the next one on the same name
\* from inside its callback; the others only take note
Relays(s) == s = 1

Range(seq) == { seq[i] : i \in 1..Len(seq) }

Emission(name, to) == [name |-> name, to |-> to, at |-> busNow]

\* mutant of emitSubjects: emit creates the channel it does not find
emitSubjects_Creates(name) == subjects \cup {name}

\* the map of channels after emit(name, data): emit adds nothing to it
emitSubjects(name) == subjects

RECURSIVE emit(_, _, _)
RECURSIVE next(_, _, _, _, _)

\* emit(eventName, data): the payloads received and the emissions made when
\* it returns.  `outer` tells that the call is not made by a callback
emit(st, name, outer) ==
    LET data == Len(st.emissions) + 1
    IN  IF name \in subjects
        THEN next([st EXCEPT !.emissions =
                                Append(@, Emission(name, Range(observers[name])))],
                  name, data, observers[name], outer)
        ELSE [st EXCEPT !.emissions = Append(@, Emission(name, {}))]

\* Subject.next(data): the copy of the list of observers is gone through in
\* order, and each callback returns before the next one is called
next(st, name, data, copy, outer) ==
    IF copy = << >> THEN st
    ELSE LET s == Head(copy)
             got == [st EXCEPT !.received[s] = Append(@, data)]
             back == IF Relays(s) /\ outer /\ Len(got.emissions) < MaxEmits
                     THEN emit(got, name, FALSE)
                     ELSE got
         IN  next(back, name, data, Tail(copy), outer)

\* the bus as constructed; `watched` tells whether doubleClick("click") has
\* been subscribed to
BusInit(watched) ==
    /\ subjects = IF watched THEN {"click"} ELSE {}
    /\ observers = [name \in EventNames |-> << >>]
    /\ received = [s \in Subscribers |-> << >>]
    /\ emissions = << >>
    /\ dc = [on |-> watched, buffer |-> << >>, left |-> timeWindow]
    /\ derived = << >>
    /\ busNow = 0

\* stream(eventName), not subscribed to
stream(name) ==
    /\ name \notin subjects
    /\ subjects' = subjects \cup {name}
    /\ UNCHANGED << observers, received, emissions, dc, derived, busNow, busOthers >>

\* stream(eventName).subscribe(callback of s)
Subscribe(name, s) ==
    /\ \A n \in EventNames : s \notin Range(observers[n])
    /\ subjects' = subjects \cup {name}
    /\ observers' = [observers EXCEPT ![name] = Append(@, s)]
    /\ UNCHANGED << received, emissions, dc, derived, busNow, busOthers >>

\* subscription.unsubscribe() of s
Unsubscribe(s) ==
    /\ \E n \in EventNames : s \in Range(observers[n])
    /\ observers' = [n \in EventNames |-> SelectSeq(observers[n], LAMBDA x : x # s)]
    /\ UNCHANGED << subjects, received, emissions, dc, derived, busNow, busOthers >>

\* emit(eventName, data), called from outside any callback; the doubleClick
\* detector buffers what the channel "click" carries
Emit(name) ==
    /\ Len(emissions) < MaxEmits
    /\ LET st == emit([received |-> received, emissions |-> emissions], name, TRUE)
           new == SubSeq(st.emissions, Len(emissions) + 1, Len(st.emissions))
           carried == { i \in 1..Len(new) : new[i].name = "click" }
       IN  /\ received' = st.received
           /\ emissions' = st.emissions
           /\ dc' = IF dc.on
                    THEN [dc EXCEPT !.buffer =
                                       @ \o [i \in 1..Cardinality(carried) |->
                                               Len(emissions) + i]]
                    ELSE dc
    /\ subjects' = emitSubjects(name)
    /\ UNCHANGED << observers, derived, busNow, busOthers >>

\* bufferTime(timeWindow) closes its buffer and opens the next one;
\* filter(events => events.length === 2), map(events => events[1])
BufferClose ==
    /\ dc.on
    /\ dc.left = 0
    /\ derived' = IF Len(dc.buffer) = 2 THEN Append(derived, dc.buffer[2]) ELSE derived
    /\ dc' = [dc EXCEPT !.buffer = << >>, !.left = timeWindow]
    /\ UNCHANGED << subjects, observers, received, emissions, busNow, busOthers >>

\* time passes, up to the end of the detector's window
BusAdvance ==
    /\ dc.on
    /\ dc.left > 0
    /\ busNow < MaxBusTime
    /\ LET ms == Min(BusTick, dc.left)
       IN  /\ busNow' = busNow + ms
           /\ dc' = [dc EXCEPT !.left = @ - ms]
    /\ UNCHANGED << subjects, observers, received, emissions, derived, busOthers >>

BusNext ==
    \/ \E name \in EventNames : stream(name)
    \/ \E name \in EventNames, s \in Subscribers : Subscribe(name, s)
    \/ \E s \in Subscribers : Unsubscribe(s)
    \/ \E name \in EventNames : Emit(name)

DoubleClickNext ==
    \/ Emit("click")
    \/ BufferClose
    \/ BusAdvance

(***************************************************************************)
(* ReactiveEventBus: the game state and the pipelines built on it and on   *)
(* a channel.  A field of the state is << >> when undefined and << v >>    *)
(* when it holds the number v.  Every updateGameState makes a new object,  *)
(* told apart by `ref`.                                                    *)
(***************************************************************************)
StateKeys == {"health", "mana"}

\* the key and the threshold of the monitors
stateKey == "health"
threshold == 2

MonitorTypes == {"below", "above"}

\* the arguments of updateGameState: some of the fields, with new values
Partials ==
    UNION { [keys -> 0..MaxValue] : keys \in (SUBSET StateKeys) \ { {} } }

\* { ...currentState, ...state }
Spread(currentState, state) ==
    [ref |-> currentState.ref + 1,
     fields |-> [k \in StateKeys |->
                    IF k \in DOMAIN state THEN << state[k] >>
                    ELSE currentState.fields[k]]]

\* filter(value => type === 'below' ? value < threshold : value > threshold)
thresholdFilter(type, value) ==
    IF type = "below" THEN value < threshold ELSE value > threshold

\* a monitor not subscribed to
NoMonitor == [on |-> FALSE, outer |-> << >>, key |-> << >>]

\* one value of gameState$ going through
\* getGameState().pipe(map, distinctUntilChanged, filter): the pipeline
\* afterwards and what it emits
Monitor(m, type, state) ==
    LET passesOuter == m.outer = << >> \/ m.outer[1] # state.ref
        value == state.fields[stateKey]
        passesInner == passesOuter /\ (m.key = << >> \/ m.key[1] # value)
        passes == /\ passesInner
                  /\ value # << >>
                  /\ thresholdFilter(type, value[1])
    IN  [mon |-> [on |-> TRUE,
                  outer |-> IF passesOuter THEN << state.ref >> ELSE m.outer,
                  key |-> IF passesInner THEN << value >> ELSE m.key],
         emit |-> IF passes THEN value ELSE << >>]

\* the bus's game state and pipelines as constructed
GsInit ==
    /\ gameState = [ref |-> 0, fields |-> [k \in StateKeys |-> << >>]]
    /\ monitors = [type \in MonitorTypes |-> NoMonitor]
    /\ monEvents = [type \in MonitorTypes |-> << >>]
    /\ updates = 0
    /\ streak = [pc |-> "none", acc |-> 0, key |-> << >>]
    /\ streakOut = << >>
    /\ scored = 0
    /\ idle = 0

\* createThresholdMonitor(stateKey, threshold, type).subscribe(...): the
\* BehaviorSubject hands its current value to the new subscriber
createThresholdMonitor(type) ==
    /\ ~monitors[type].on
    /\ LET first == Monitor(NoMonitor, type, gameState)
       IN  /\ monitors' = [monitors EXCEPT ![type] = first.mon]
           /\ monEvents' = [t \in MonitorTypes |->
                               IF t = type THEN first.emit ELSE << >>]
    /\ UNCHANGED << gameState, updates, streak, streakOut, scored, idle, gsOthers >>

\* updateGameState(state)
updateGameState(state) ==
    /\ updates < MaxUpdates
    /\ updates' = updates + 1
    /\ gameState' = Spread(gameState, state)
    /\ LET got == [type \in MonitorTypes |-> Monitor(monitors[type], type, gameState')]
       IN  /\ monitors' = [type \in MonitorTypes |->
                              IF monitors[type].on THEN got[type].mon
                              ELSE monitors[type]]
           /\ monEvents' = [type \in MonitorTypes |->
                               IF monitors[type].on THEN got[type].emit ELSE << >>]
    /\ UNCHANGED << streak, streakOut, scored, idle, gsOthers >>

MonitorNext ==
    \/ \E type \in MonitorTypes : createThresholdMonitor(type)
    \/ \E state \in Partials : updateGameState(state)

\* mutant of streakFilter: the threshold itself is not let through
streakFilter_Above(n) == n > streakLength

\* filter(streak => streak >= streakLength)
streakFilter(n) == n >= streakLength

\* createStreakDetector("score"): stream("score") makes the channel
createStreakDetector ==
    /\ streak.pc = "none"
    /\ streak' = [streak EXCEPT !.pc = "created"]
    /\ UNCHANGED << gameState, monitors, monEvents, updates, streakOut, scored, idle,
                    gsOthers >>

\* subscribe(...) to the detector: scan starts from its seed
StreakSubscribe ==
    /\ streak.pc = "created"
    /\ streak' = [pc |-> "subscribed", acc |-> 0, key |-> << >>]
    /\ streakOut' = << >>
    /\ scored' = 0
    /\ UNCHANGED << gameState, monitors, monEvents, updates, idle, gsOthers >>

\* unsubscribe() from the detector
StreakUnsubscribe ==
    /\ streak.pc = "subscribed"
    /\ streak' = [streak EXCEPT !.pc = "created"]
    /\ UNCHANGED << gameState, monitors, monEvents, updates, streakOut, scored, idle,
                    gsOthers >>

\* emit("score", data): scan, filter, distinctUntilChanged
EmitScore ==
    /\ scored < MaxScores
    /\ idle' = 0
    /\ IF streak.pc = "subscribed"
       THEN LET acc == streak.acc + 1
                passes == streakFilter(acc) /\ (streak.key = << >> \/ streak.key[1] # acc)
            IN  /\ streak' = [streak EXCEPT !.acc = acc,
                                            !.key = IF passes THEN << acc >> ELSE @]
                /\ streakOut' = IF passes THEN Append(streakOut, acc) ELSE streakOut
                /\ scored' = scored + 1
       ELSE UNCHANGED << streak, streakOut, scored >>
    /\ UNCHANGED << gameState, monitors, monEvents, updates, gsOthers >>

\* time passes without an emit on "score"
StreakIdle ==
    /\ idle < MaxIdle
    /\ idle' = Min(idle + IdleTick, MaxIdle)
    /\ UNCHANGED << gameState, monitors, monEvents, updates, streak, streakOut, scored,
                    gsOthers >>

StreakNext ==
    \/ createStreakDetector
    \/ StreakSubscribe
    \/ StreakUnsubscribe
    \/ EmitScore
    \/ StreakIdle

(***************************************************************************)
(* SaveManager with its default configuration (no compression).  A text is *)
(* a sequence of character codes; an absent value (a missing key, no item  *)
(* in localStorage) is << >> and a present one << v >>.                    *)
(***************************************************************************)
\* the text  null
TextNull == << 110, 117, 108, 108 >>

\* the text  {"gold":
TextGold == << 123, 34, 103, 111, 108, 100, 34, 58 >>

\* the text  }
TextClose == << 125 >>

\* the text  "
TextQuote == << 34 >>

\* the text  ,
TextComma == << 44 >>

\* the text  {
TextOpen == << 123 >>

\* the text  "version":
TextVersion == << 34, 118, 101, 114, 115, 105, 111, 110, 34, 58 >>

\* the text  "timestamp":
TextTimestamp == << 34, 116, 105, 109, 101, 115, 116, 97, 109, 112, 34, 58 >>

\* the text  "data":
TextData == << 34, 100, 97, 116, 97, 34, 58 >>

\* the text  "hash":
TextHash == << 34, 104, 97, 115, 104, 34, 58 >>

\* the text  1.0.0
TextV1 == << 49, 46, 48, 46, 48 >>

\* the text  2.0.0
TextV2 == << 50, 46, 48, 46, 48 >>

\* values handed to save: null, undefined, NaN, numbers and objects { gold: n }
Value(kind, n) == [kind |-> kind, n |-> n]
Null == Value("null", 0)
Undefined == Value("undefined", 0)
NaN == Value("NaN", 0)
Inputs ==
    { Null, Undefined, NaN } \cup
    { Value(kind, n) : kind \in {"number", "object"}, n \in 0..MaxGold }

\* the values JSON represents: what JSON.parse can give back
Serialisable == Inputs \ { Undefined, NaN }

\* the decimal digits of a number
RECURSIVE Digits(_)
Digits(n) == IF n < 10 THEN << 48 + n >> ELSE Digits(n \div 10) \o << 48 + (n % 10) >>

\* JSON.stringify(value), << >> when it returns undefined
stringify(value) ==
    CASE value.kind = "undefined" -> << >>
      [] value.kind \in {"null", "NaN"} -> << TextNull >>
      [] value.kind = "number" -> << Digits(value.n) >>
      [] value.kind = "object" -> << TextGold \o Digits(value.n) \o TextClose >>

\* a 32-bit integer as two 16-bit halves
Half == 65536
Int32(hi, lo) == [hi |-> hi, lo |-> lo]

\* hash = ((hash << 5) - hash) + char; hash = hash & hash
hashStep(hash, char) ==
    LET low == hash.lo * 31 + char
    IN  Int32((hash.hi * 31 + (low \div Half)) % Half, low % Half)

RECURSIVE hashLoop(_, _)
hashLoop(hash, str) ==
    IF str = << >> THEN hash ELSE hashLoop(hashStep(hash, Head(str)), Tail(str))

\* a digit of radix 36 as a character
Digit36(v) == IF v < 10 THEN 48 + v ELSE 87 + v

\* the digits of radix 36 of the unsigned number of two halves
RECURSIVE Radix36(_, _)
Radix36(hi, lo) ==
    IF hi = 0 /\ lo < 36 THEN << Digit36(lo) >>
    ELSE LET low == (hi % 36) * Half + lo
         IN  Radix36(hi \div 36, low \div 36) \o << Digit36(low % 36) >>

\* hash.toString(36) of a signed 32-bit integer
toString36(hash) ==
    IF hash.hi < Half \div 2 THEN Radix36(hash.hi, hash.lo)
    ELSE << 45 >> \o
         Radix36((Half - 1 - hash.hi + (IF hash.lo = 0 THEN 1 ELSE 0)) % Half,
                 (Half - hash.lo) % Half)

\* generateHash(data), for a value JSON.stringify gives a text for
generateHash(data) == toString36(hashLoop(Int32(0, 0), stringify(data)[1]))

\* SaveData: every key may be absent
SaveData(version, timestamp, data, hash) ==
    [version |-> version, timestamp |-> timestamp, data |-> data, hash |-> hash]

\* "key":value of each member that is present, in the order of the keys
Members(saveData) ==
    (IF saveData.version = << >> THEN << >>
     ELSE << TextVersion \o TextQuote \o saveData.version[1] \o TextQuote >>)
    \o
    (IF saveData.timestamp = << >> THEN << >>
     ELSE << TextTimestamp \o Digits(saveData.timestamp[1]) >>)
    \o
    (IF saveData.data = << >> \/ stringify(saveData.data[1]) = << >> THEN << >>
     ELSE << TextData \o stringify(saveData.data[1])[1] >>)
    \o
    (IF saveData.hash = << >> THEN << >>
     ELSE << TextHash \o TextQuote \o saveData.hash[1] \o TextQuote >>)

RECURSIVE Joined(_)
Joined(members) ==
    IF members = << >> THEN << >>
    ELSE IF Len(members) = 1 THEN members[1]
    ELSE members[1] \o TextComma \o Joined(Tail(members))

\* JSON.stringify(saveData)
stringifySaveData(saveData) == TextOpen \o Joined(Members(saveData)) \o TextClose

\* the objects a stored text can stand for
Parsed ==
    { SaveData(version, timestamp, data, hash) :
        version \in { << >>, << TextV1 >>, << TextV2 >> },
        timestamp \in { << Epoch >> },
        data \in { << >> } \cup { << v >> : v \in Serialisable },
        hash \in { << >>, << << >> >> } \cup { << generateHash(v) >> : v \in Serialisable } }

\* JSON.parse(serialized): << >> when it throws
parse(serialized) ==
    LET found == { saveData \in Parsed : stringifySaveData(saveData) = serialized }
    IN  IF found = {} THEN << >> ELSE << CHOOSE saveData \in found : TRUE >>

\* the texts a file given to importSave holds: a save, edited or not, and
\* the beginning of one
Files ==
    LET whole == { stringifySaveData(saveData) : saveData \in Parsed }
    IN  whole \cup { SubSeq(text, 1, Len(text) - 1) : text \in whole }
              \cup { SubSeq(text, 1, Len(text) \div 2) : text \in whole }

\* getVersion
getVersion == TextV1

\* the number before the first point of a version
RECURSIVE Major(_, _)
Major(version, n) ==
    IF version = << >> \/ Head(version) = 46 THEN n
    ELSE Major(Tail(version), n * 10 + Head(version) - 48)

\* isVersionCompatible(version)
isVersionCompatible(version) == Major(getVersion, 0) = Major(version, 0)

\* what a call gives back: a value, or nothing when the call threw
Returned(value) == [threw |-> FALSE, value |-> value]

\* verifyIntegrity(saveData); "throws" when generateHash does
verifyIntegrity(saveData) ==
    IF saveData.hash = << >> \/ saveData.hash[1] = << >> THEN "true"
    ELSE IF saveData.data = << >> THEN "throws"
    ELSE IF saveData.hash[1] = generateHash(saveData.data[1]) THEN "true"
    ELSE "false"

\* load(): what it resolves to for the item of localStorage
loadResult(item) ==
    IF item = << >> \/ item[1] = << >> THEN Returned(Null)
    ELSE LET parsed == parse(item[1])
         IN  IF parsed = << >> THEN Returned(Null)
             ELSE LET saveData == parsed[1]
                  IN  IF verifyIntegrity(saveData) # "true" THEN Returned(Null)
                      ELSE IF saveData.version = << >> THEN Returned(Null)
                      ELSE IF saveData.data = << >> THEN Returned(Undefined)
                      ELSE Returned(saveData.data[1])

NotLoaded == [done |-> FALSE, item |-> << >>, result |-> Returned(Null)]

\* SaveManager as constructed, over an empty localStorage
SvInit ==
    /\ storage = << >>
    /\ saved = << >>
    /\ saveResult = << >>
    /\ loaded = NotLoaded

\* save(data)
save(data) ==
    /\ loaded' = NotLoaded
    /\ IF stringify(data) = << >>
       THEN /\ saveResult' = << FALSE >>
            /\ UNCHANGED << storage, saved >>
       ELSE /\ storage' = << stringifySaveData(
                              SaveData(<< getVersion >>, << Epoch >>, << data >>,
                                       << generateHash(data) >>)) >>
            /\ saved' = << data >>
            /\ saveResult' = << TRUE >>
    /\ UNCHANGED svOthers

\* load()
load ==
    /\ loaded' = [done |-> TRUE, item |-> storage, result |-> loadResult(storage)]
    /\ UNCHANGED << storage, saved, saveResult, svOthers >>

\* importSave(file)
importSave(text) ==
    /\ storage' = << text >>
    /\ saved' = << >>
    /\ loaded' = NotLoaded
    /\ UNCHANGED << saveResult, svOthers >>

\* delete()
delete ==
    /\ storage # << >>
    /\ storage' = << >>
    /\ saved' = << >>
    /\ loaded' = NotLoaded
    /\ UNCHANGED << saveResult, svOthers >>

SaveNext ==
    \/ \E data \in Inputs : save(data)
    \/ load
    \/ \E text \in Files : importSave(text)
    \/ delete

(***************************************************************************)
(* The host page's messages: the listener of EnhancedResponsiveManager     *)
(* (setupEmbedModeDetection) and the listener of EnhancedEmbedManager      *)
(* (setupParentCommunication), both on the same window.  The timestamp of  *)
(* an EmbedMessage is left out.                                            *)
(***************************************************************************)
Origins == {"https://parent.example", "https://other.example"}

\* the sizes a message asks for
EmbedSizes == { Size(375, 667), Size(834, 1112) }

\* event.data.type: missing, not a string, or one of the strings
MessageTypes ==
    {"missing", "number", "embed-resize", "embed-fullscreen-request", "embed-focus",
     "other"}

\* event.data: null, a string, or an object with type, width/height (top)
\* and data (inner), each of which may be absent
MessageData ==
    { [shape |-> shape, type |-> "missing", top |-> << >>, inner |-> << >>] :
        shape \in {"null", "string"} }
    \cup
    { [shape |-> "object", type |-> type, top |-> top, inner |-> inner] :
        type \in MessageTypes,
        top \in { << >> } \cup { << s >> : s \in EmbedSizes },
        inner \in { << >> } \cup { << s >> : s \in EmbedSizes } }

MessageEvent(origin, data) == [origin |-> origin, data |-> data]

\* typeof event.data.type === 'string'
HasStringType(data) == data.shape = "object" /\ data.type \notin {"missing", "number"}

\* isValidParentMessage(event)
isValidParentMessage(event, context) ==
    IF context.parentOrigin # << >> /\ event.origin # context.parentOrigin[1]
    THEN FALSE
    ELSE event.data.shape # "null" /\ HasStringType(event.data)

\* the listener of setupEmbedModeDetection: what it does with an event
responsiveListener(event, context) ==
    IF event.data.shape = "null" THEN "throws"
    ELSE IF event.data.type = "embed-resize" THEN "handleEmbedResize"
    ELSE IF event.data.type = "embed-fullscreen-request" THEN "requestFullscreenFromEmbed"
    ELSE "nothing"

\* the types setupParentCommunication registers a handler for
Handled == {"embed-resize", "embed-focus"}

EmbedContext(parentOrigin, parentSize) ==
    [parentOrigin |-> parentOrigin, parentSize |-> parentSize]

Snapshot(ref, content) == [ref |-> ref, content |-> content]

\* embedContext$.next(ref) as the subscriber of getEmbedContext() sees it:
\* distinctUntilChanged compares the objects' identities
Delivered(sub, ref, heap) ==
    IF sub.key = << ref >> THEN sub
    ELSE [key |-> << ref >>, got |-> Append(sub.got, Snapshot(ref, heap[ref]))]

\* handleParentResize(width, height): the objects and embedContext$.value
\* afterwards
handleParentResize(heap, value, size) ==
    [heap |-> [heap EXCEPT ![value].parentSize = << size >>],
     value |-> value]

\* the embed manager as constructed in a page, with a subscriber of
\* getEmbedContext(); a page that is not embedded knows no parent origin
EmInit ==
    /\ isEmbedded \in BOOLEAN
    /\ \E parentOrigin \in { << >>, << "https://parent.example" >> } :
          /\ parentOrigin # << >> => isEmbedded
          /\ emHeap = << EmbedContext(parentOrigin, << >>) >>
    /\ emValue = 1
    /\ emSub = [key |-> << 1 >>, got |-> << Snapshot(1, emHeap[1]) >>]
    /\ parentMessages = << >>
    /\ emEffects = << >>
    /\ emThrew = FALSE
    /\ emLast = << >>
    /\ emCount = 0

\* a 'message' event on the window: both listeners run
Message(event) ==
    LET context == emHeap[emValue]
        first == responsiveListener(event, context)
        resized == first = "handleEmbedResize"
        container == IF resized /\ event.data.top # << >> THEN event.data.top[1] ELSE win
        viewport == updateViewportState(container, viewportState)
        valid == isEmbedded /\ isValidParentMessage(event, context)
        handler == valid /\ event.data.type \in Handled
        \* the handler of embed-resize reads data.width of an absent data
        failed == handler /\ event.data.type = "embed-resize" /\ event.data.inner = << >>
        parentResize == handler /\ event.data.type = "embed-resize" /\ ~failed
        after == IF parentResize
                 THEN handleParentResize(emHeap, emValue, event.data.inner[1])
                 ELSE [heap |-> emHeap, value |-> emValue]
    IN  /\ emCount < MaxMessages
        /\ emCount' = emCount + 1
        /\ emLast' = << event >>
        /\ emThrew' = (first = "throws")
        /\ win' = container
        /\ observed' = IF container # win THEN resizeObserver ELSE observed
        /\ viewportState' = IF resized THEN viewport.state ELSE viewportState
        /\ erEvents' = IF resized THEN viewport.emit ELSE << >>
        /\ rmEvents' = << >>
        /\ parentMessages' = IF valid
                             THEN << [type |-> event.data.type, data |-> event.data.inner,
                                      source |-> "parent"] >>
                             ELSE parentMessages
        /\ emHeap' = after.heap
        /\ emValue' = after.value
        /\ emSub' = IF parentResize THEN Delivered(emSub, after.value, after.heap)
                    ELSE emSub
        /\ emEffects' =
              (IF resized THEN << "handleEmbedResize" >> ELSE << >>)
              \o (IF first = "requestFullscreenFromEmbed"
                  THEN << "requestFullscreenFromEmbed" >> ELSE << >>)
              \o (IF parentResize THEN << "embed:parentResize" >> ELSE << >>)
              \o (IF handler /\ event.data.type = "embed-focus"
                  THEN << "scenes:resume", "embed:focusChange" >> ELSE << >>)
              \o (IF valid THEN << "embed:" \o event.data.type >> ELSE << >>)
        /\ UNCHANGED << isEmbedded, emOthers >>

EmbedNext ==
    \E origin \in Origins, data \in MessageData : Message(MessageEvent(origin, data))

(***************************************************************************)
(* GameStateManager.  The state keeps the fields the reactions and the     *)
(* handlers below read or write; an object made by a selector is its       *)
(* identity `id` (the number of objects made before it, plus one) and its  *)
(* fields.                                                                  *)
(***************************************************************************)
getInitialState ==
    [paused |-> FALSE,
     player |-> [level |-> 1, experience |-> 0, health |-> 100, maxHealth |-> 100,
                 position |-> [x |-> 0, y |-> 0]],
     progress |-> [score |-> 0, highScore |-> 0],
     performance |-> [fps |-> 60]]

\* typeof value === 'object' && value !== null && !Array.isArray(value)
ObjectKeys == {"player", "progress", "performance"}

\* { ...a, ...b }
Assign(a, b) ==
    [k \in DOMAIN a \cup DOMAIN b |-> IF k \in DOMAIN b THEN b[k] ELSE a[k]]

mergeState(current, partial) ==
    [key \in DOMAIN current \cup DOMAIN partial |->
        IF key \notin DOMAIN partial THEN current[key]
        ELSE IF key \in ObjectKeys THEN Assign(current[key], partial[key])
        ELSE partial[key]]

GsmEvent(type, data) == [type |-> type, data |-> data]

\* the selector of the auto-save reaction: a new object at every call
autoSaveSelector(s, id) ==
    [id |-> id,
     fields |-> [level |-> s.player.level, experience |-> s.player.experience,
                 progress |-> s.progress]]

\* the selector of selectPlayerHealth: a new object at every call; the
\* percentage is kept as the pair it is computed from
healthSelector(s, id) ==
    [id |-> id,
     fields |-> [current |-> s.player.health, max |-> s.player.maxHealth]]

\* filter(health => health.percentage <= 20)
healthCritical(health) == health.current * 100 <= 20 * health.max

\* distinctUntilChanged(): the value passes unless it is (===) the last one
Changed(key, object) == key = << >> \/ key[1] # object.id

\* state$.next(s) reaching the reactions of setupStateReactions in the order
\* of their subscription; r holds the keys, the object count and the events
Reactions(r, s) ==
    LET data == autoSaveSelector(s, r.objects + 1)
        health == healthSelector(s, r.objects + 2)
        passes == Changed(r.keys.autoSave, data)
        critical == Changed(r.keys.health, health) /\ healthCritical(health.fields)
    IN  [keys |-> [autoSave |-> IF passes THEN << data.id >> ELSE r.keys.autoSave,
                   health |-> IF Changed(r.keys.health, health) THEN << health.id >>
                              ELSE r.keys.health],
         objects |-> r.objects + 2,
         events |-> r.events
                    \o (IF passes THEN << GsmEvent("game:autoSave", data.fields) >>
                        ELSE << >>)
                    \o (IF critical THEN << GsmEvent("player:healthCritical", health.fields) >>
                        ELSE << >>)]

\* the constructor: state$ holds the initial state and setupStateReactions
\* has subscribed both reactions, which received it at once
GsmInit ==
    LET r == Reactions([keys |-> [autoSave |-> << >>, health |-> << >>],
                        objects |-> 0, events |-> << >>], getInitialState)
    IN  /\ gsmState = getInitialState
        /\ gsmKeys = r.keys
        /\ gsmObjects = r.objects
        /\ gsmEvents = r.events
        /\ gsmCount = 0

\* updateState(updates), followed by the emits `after` of the calling handler
updateState(partial, after) ==
    LET newState == mergeState(gsmState, partial)
        r == Reactions([keys |-> gsmKeys, objects |-> gsmObjects, events |-> << >>],
                       newState)
    IN  /\ gsmCount < MaxStateUpdates
        /\ gsmCount' = gsmCount + 1
        /\ gsmState' = newState
        /\ gsmKeys' = r.keys
        /\ gsmObjects' = r.objects
        /\ gsmEvents' = r.events
                        \o << GsmEvent("state:updated",
                                       [previous |-> gsmState, current |-> newState]) >>
                        \o after
        /\ UNCHANGED gsmOthers

Coordinates == 0..MaxCoordinate
Healths == {10, 100}
Experiences == {50, 100}
Scores == {0, 10}
FrameRates == {30, 60}

updatePlayerPosition(x, y) ==
    LET currentPlayer == gsmState.player
    IN  updateState([player |-> [currentPlayer EXCEPT !.position = [x |-> x, y |-> y]]],
                    << >>)

updatePlayerHealth(health) ==
    LET currentPlayer == gsmState.player
    IN  updateState([player |-> [currentPlayer EXCEPT
                                    !.health = Max(0, Min(health, currentPlayer.maxHealth))]],
                    << >>)

addExperience(exp) ==
    LET currentPlayer == gsmState.player
        newExperience == currentPlayer.experience + exp
        newLevel == (newExperience \div 100) + 1
    IN  updateState([player |-> [currentPlayer EXCEPT
                                    !.experience = newExperience,
                                    !.level = Max(currentPlayer.level, newLevel)]],
                    IF newLevel > currentPlayer.level
                    THEN << GsmEvent("player:levelUp",
                                     [newLevel |-> newLevel, experience |-> newExperience]) >>
                    ELSE << >>)

updateScore(score) ==
    LET currentProgress == gsmState.progress
        newHighScore == Max(currentProgress.highScore, score)
    IN  updateState([progress |-> [currentProgress EXCEPT !.score = score,
                                                          !.highScore = newHighScore]],
                    IF newHighScore > currentProgress.highScore
                    THEN << GsmEvent("score:newHighScore", newHighScore) >>
                    ELSE << >>)

pauseGame == updateState([paused |-> TRUE], << GsmEvent("game:paused", << >>) >>)

resumeGame == updateState([paused |-> FALSE], << GsmEvent("game:resumed", << >>) >>)

\* the subscriber of createPerformanceMonitor in setupStateReactions
OnPerformance(fps) ==
    updateState([performance |-> Assign(gsmState.performance, [fps |-> fps])], << >>)

GameStateNext ==
    \/ \E x \in Coordinates, y \in Coordinates : updatePlayerPosition(x, y)
    \/ \E health \in Healths : updatePlayerHealth(health)
    \/ \E exp \in Experiences : addExperience(exp)
    \/ \E score \in Scores : updateScore(score)
    \/ pauseGame
    \/ resumeGame
    \/ \E fps \in FrameRates : OnPerformance(fps)

(***************************************************************************)
(* SceneManager.  `engine` is Phaser's scene plugin (game.scene), by its   *)
(* documented contract: start runs a scene (again, if it was running),     *)
(* stop shuts it down, pause holds a running scene, resume continues a     *)
(* paused one.  What resume does to a scene that is not paused is left     *)
(* open.  An absent argument is << >>, a present one << v >>.              *)
(***************************************************************************)
Scenes == {"A", "B"}

ScInit ==
    /\ sceneStack = << >>
    /\ sceneData = {}
    /\ engine = [k \in Scenes |-> "stopped"]
    /\ scLast = [op |-> "new", result |-> << >>]

\* game.scene.start / stop / pause
sceneStart(e, key) == [e EXCEPT ![key] = "running"]
sceneStop(e, key) == [e EXCEPT ![key] = "stopped"]
scenePause(e, key) == IF e[key] = "running" THEN [e EXCEPT ![key] = "paused"] ELSE e

\* game.scene.resume: the engines that can result
sceneResume(e, key) ==
    IF e[key] = "paused" THEN { [e EXCEPT ![key] = "running"] }
    ELSE { e, [e EXCEPT ![key] = "running"] }

\* getCurrentScene(): sceneStack[length - 1] || null
getCurrentScene(stack) == IF stack = << >> THEN << >> ELSE << stack[Len(stack)] >>

\* if (data) this.sceneData.set(sceneKey, data)
SetData(keys, sceneKey, data) == IF data THEN keys \cup {sceneKey} ELSE keys

Front(stack) == SubSeq(stack, 1, Len(stack) - 1)

\* indexOf and splice(index, 1)
indexOf(stack, scene) ==
    IF \E i \in 1..Len(stack) : stack[i] = scene
    THEN CHOOSE i \in 1..Len(stack) :
            stack[i] = scene /\ \A j \in 1..(i - 1) : stack[j] # scene
    ELSE 0

Splice(stack, index) ==
    SubSeq(stack, 1, index - 1) \o SubSeq(stack, index + 1, Len(stack))

start(sceneKey, data) ==
    /\ engine' = sceneStart(engine, sceneKey)
    /\ sceneStack' = << sceneKey >>
    /\ sceneData' = SetData(sceneData, sceneKey, data)
    /\ scLast' = [op |-> "start", result |-> << >>]
    /\ UNCHANGED scOthers

transition(sceneKey, data, fromScene) ==
    /\ Len(sceneStack) < MaxStack
    /\ engine' = sceneStart(IF fromScene # << >> THEN sceneStop(engine, fromScene[1])
                            ELSE engine, sceneKey)
    /\ sceneStack' = Append(sceneStack, sceneKey)
    /\ sceneData' = SetData(sceneData, sceneKey, data)
    /\ scLast' = [op |-> "transition", result |-> << >>]
    /\ UNCHANGED scOthers

push(sceneKey, data) ==
    LET currentScene == getCurrentScene(sceneStack)
    IN  /\ Len(sceneStack) < MaxStack
        /\ engine' = sceneStart(IF currentScene # << >>
                                THEN scenePause(engine, currentScene[1])
                                ELSE engine, sceneKey)
        /\ sceneStack' = Append(sceneStack, sceneKey)
        /\ sceneData' = SetData(sceneData, sceneKey, data)
        /\ scLast' = [op |-> "push", result |-> << >>]
        /\ UNCHANGED scOthers

pop ==
    /\ IF Len(sceneStack) <= 1
       THEN /\ scLast' = [op |-> "pop", result |-> << >>]
            /\ UNCHANGED << sceneStack, sceneData, engine >>
       ELSE LET currentScene == sceneStack[Len(sceneStack)]
                previousScene == getCurrentScene(Front(sceneStack))
            IN  /\ sceneStack' = Front(sceneStack)
                /\ sceneData' = sceneData \ {currentScene}
                /\ engine' \in sceneResume(sceneStop(engine, currentScene),
                                           previousScene[1])
                /\ scLast' = [op |-> "pop", result |-> << currentScene >>]
    /\ UNCHANGED scOthers

replace(sceneKey, data) ==
    LET currentScene == getCurrentScene(sceneStack)
        some == currentScene # << >>
    IN  /\ engine' = sceneStart(IF some THEN sceneStop(engine, currentScene[1])
                                ELSE engine, sceneKey)
        /\ sceneStack' = Append(IF some THEN Front(sceneStack) ELSE sceneStack, sceneKey)
        /\ sceneData' = SetData(IF some THEN sceneData \ {currentScene[1]} ELSE sceneData,
                                sceneKey, data)
        /\ scLast' = [op |-> "replace", result |-> << >>]
        /\ UNCHANGED scOthers

stop(sceneKey) ==
    LET scene == IF sceneKey # << >> THEN sceneKey ELSE getCurrentScene(sceneStack)
    IN  /\ IF scene # << >>
           THEN LET index == indexOf(sceneStack, scene[1])
                IN  /\ engine' = sceneStop(engine, scene[1])
                    /\ sceneStack' = IF index > 0 THEN Splice(sceneStack, index)
                                     ELSE sceneStack
                    /\ sceneData' = sceneData \ {scene[1]}
           ELSE UNCHANGED << sceneStack, sceneData, engine >>
        /\ scLast' = [op |-> "stop", result |-> << >>]
        /\ UNCHANGED scOthers

Keys == { << >> } \cup { << k >> : k \in Scenes }

SceneNext ==
    \/ \E sceneKey \in Scenes, data \in BOOLEAN : start(sceneKey, data)
    \/ \E sceneKey \in Scenes, data \in BOOLEAN, fromScene \in Keys :
          transition(sceneKey, data, fromScene)
    \/ \E sceneKey \in Scenes, data \in BOOLEAN : push(sceneKey, data)
    \/ pop
    \/ \E sceneKey \in Scenes, data \in BOOLEAN : replace(sceneKey, data)
    \/ \E sceneKey \in Keys : stop(sceneKey)
(***************************************************************************)
(* Specifications, one per component; the other components stay as         *)
(* constructed                                                             *)
(***************************************************************************)
InputInit == now = 0 /\ contacts = << >> /\ lastTap = NoTap

\* the responsive layer of a desktop window
RsStill == RsInit /\ win = Size(1400, 900) /\ resizeObserver

\* the browser the renderer has classified
DeviceStill == device = TypicalDevice(deviceTier)

\* the recognizers, the responsive layer and the event bus as constructed
Idle == InputInit /\ TmInit /\ GmInit

\* the components that stand apart, as constructed
\* the embed manager of a page that is not embedded
EmStill == EmInit /\ ~isEmbedded

ExtInit == GsInit /\ SvInit /\ EmStill /\ strays = 0 /\ GsmInit /\ ScInit

RendererInit == ArInit /\ DeviceStill /\ Idle /\ RsStill /\ BusInit(FALSE) /\ ExtInit

\* the renderer of a high-tier device, as constructed
HighTier == ArInit /\ deviceTier = "high" /\ DeviceStill

TouchInit == HighTier /\ Idle /\ RsStill /\ BusInit(FALSE) /\ ExtInit

GestureInit == HighTier /\ Idle /\ RsStill /\ BusInit(FALSE) /\ ExtInit

PinchInit == HighTier /\ Idle /\ RsStill /\ BusInit(FALSE) /\ ExtInit

ResponsiveInit == HighTier /\ Idle /\ RsInit /\ BusInit(FALSE) /\ ExtInit

EventBusInit == HighTier /\ Idle /\ RsStill /\ BusInit(FALSE) /\ ExtInit

\* the event bus after doubleClick("click") was subscribed to
DoubleClickInit == HighTier /\ Idle /\ RsStill /\ BusInit(TRUE) /\ ExtInit

\* the constructor of AdaptiveRenderer, in any of the browsers
TierInit == ArFields /\ device \in Devices /\ Idle /\ RsStill /\ BusInit(FALSE) /\ ExtInit

TierNext == DetectTier \/ initializeAdaptiveRendering

\* everything but the game state's pipelines, as constructed
CoreStill == HighTier /\ Idle /\ RsStill /\ BusInit(FALSE)

MonitorInit == CoreStill /\ ExtInit

StreakInit == CoreStill /\ ExtInit

SaveInit == CoreStill /\ ExtInit

EmbedInit == CoreStill /\ GsInit /\ SvInit /\ EmInit /\ strays = 0 /\ GsmInit /\ ScInit

StrayInit == CoreStill /\ ExtInit

SpecRenderer == RendererInit /\ [][ArNext]_vars

SpecTouch == TouchInit /\ [][TmNext]_vars

SpecGesture == GestureInit /\ [][GmNext]_vars

SpecPinch == PinchInit /\ [][PinchNext]_vars

SpecResponsive == ResponsiveInit /\ [][RsNext]_vars

SpecTier == TierInit /\ [][TierNext]_vars

SpecBus == EventBusInit /\ [][BusNext]_vars

SpecDoubleClick == DoubleClickInit /\ [][DoubleClickNext]_vars

SpecMonitor == MonitorInit /\ [][MonitorNext]_vars

SpecStreak == StreakInit /\ [][StreakNext]_vars

SpecSave == SaveInit /\ [][SaveNext]_vars

SpecEmbed == EmbedInit /\ [][EmbedNext]_vars

SpecStray == StrayInit /\ [][StrayNext]_vars

\* the renderer left to its samples and timers
LadderInit == ArInit /\ DeviceStill /\ Idle /\ RsStill /\ BusInit(FALSE) /\ ExtInit

SpecLadder == LadderInit /\ [][LadderNext]_vars

\* the renderer of a high-tier device and a subscriber of getCurrentSettings()
SettingsInit == HighTier /\ Idle /\ RsStill /\ BusInit(FALSE) /\ ExtInit

SpecSettings == SettingsInit /\ [][SettingsNext]_vars

\* everything but the GameStateManager and the SceneManager, as constructed
RestStill == CoreStill /\ GsInit /\ SvInit /\ EmStill /\ strays = 0

GameStateInit == RestStill /\ GsmInit /\ ScInit

SceneInit == RestStill /\ GsmInit /\ ScInit

SpecGameState == GameStateInit /\ [][GameStateNext]_vars

SpecScene == SceneInit /\ [][SceneNext]_vars
(***************************************************************************)
(* Claims about the gesture recognizers                                    *)
(***************************************************************************)
\* the single-finger contacts that are over
Completed == { n \in 1..Len(contacts) : ~contacts[n].live /\ ~contacts[n].multi }

\* the contacts that were a tap: under 200 ms and under 10 px
Taps == { n \in Completed : contacts[n].tap }

Count(events, type) == Cardinality({ i \in 1..Len(events) : events[i] = type })

\* GestureManager has nothing pending for the tap of contact n
GmSettled(n) ==
    /\ singleTap = << >> \/ singleTap[1].tapData.n # n
    /\ \A i \in 1..Len(tapBuffer.buffer) : tapBuffer.buffer[i].n # n

\* C1 (as claimed): every single-finger contact under 200 ms and under 10 px
\* gets exactly one event from GestureManager, and that event is a tap or a
\* double-tap: never both, never a swipe, and not none once nothing is
\* pending for it
C1_TapYieldsOneEvent ==
    \A n \in Taps :
        /\ Len(contacts[n].events) <= 1
        /\ \A i \in 1..Len(contacts[n].events) :
              contacts[n].events[i] \in {"tap", "double-tap"}
        /\ GmSettled(n) => Len(contacts[n].events) = 1

\* two taps at the same place, the second ending less than 300 ms after the
\* first, and no other contact
TapPair ==
    /\ Len(contacts) = 2
    /\ Taps = {1, 2}
    /\ contacts[2].after = 1

\* C2 (as claimed): two taps at the same place, the second within 300 ms of
\* the first, give exactly one double-tap event and no tap event from
\* GestureManager, wherever they fall in the windows of bufferTime
C2_PairYieldsDoubleTap ==
    TapPair =>
        /\ Count(contacts[1].events \o contacts[2].events, "tap") = 0
        /\ (GmSettled(1) /\ GmSettled(2)) =>
              /\ contacts[1].events = << "double-tap" >>
              /\ contacts[2].events = << "double-tap" >>

\* C3 (as claimed): TouchManager emits touch:hold only while the contact
\* whose start scheduled the callback is still down and has not been more
\* than 10 px from its start: never after it ended, and so never against a
\* later contact with the same pointer id
C3_HoldOnlyForItsContact ==
    \A i \in 1..Len(tmEvents) :
        tmEvents[i].type = "touch:hold" =>
            /\ contacts[tmEvents[i].data.scheduledBy].live
            /\ ~contacts[tmEvents[i].data.scheduledBy].far

\* no contact is classified as two different gestures
C4_AtMostOneType ==
    \A n \in Completed :
        Cardinality({ contacts[n].events[i] : i \in 1..Len(contacts[n].events) }) <= 1

\* C4 (as claimed): every completed single-finger contact results in exactly
\* one gesture event of TouchManager, and none is classified as two
\* different gestures
C4_OneGesturePerContact ==
    /\ C4_AtMostOneType
    /\ \A n \in Completed : Len(contacts[n].events) = 1


\* the touch of contact n has ended in this step
EndStep(n) ==
    /\ n <= Len(contacts)
    /\ contacts[n].live
    /\ ~contacts'[n].live
    /\ ~contacts[n].multi

\* where the finger of contact n is
TouchAt(n) == touches[TouchOf(touches, contacts[n].id)].pos

SwipesOf(events) == { i \in 1..Len(events) : events[i].type = "swipe" }

Horizontal == {"left", "right"}

\* what the claim and its amendment share: at the end of a single-finger
\* contact GestureManager emits one swipe if `due`, else none, and the
\* direction is horizontal or vertical as `horizontal` tells
SwipeRule(n, due, horizontal(_, _)) ==
    LET p == TouchAt(n)
        dx == p.x - contacts[n].from.x
        dy == p.y - contacts[n].from.y
    IN  /\ Cardinality(SwipesOf(gmEvents')) = IF due THEN 1 ELSE 0
        /\ \A i \in SwipesOf(gmEvents') :
              /\ gmEvents'[i].data.direction \in Horizontal <=> horizontal(dx, dy)
              /\ gmEvents'[i].data.direction \in {"right", "down"} <=>
                    (IF horizontal(dx, dy) THEN dx > 0 ELSE dy > 0)

\* C12 (as claimed): a swipe is emitted for a single-finger contact exactly
\* when it ends at least 50 px from its start and within 300 ms of it; the
\* direction is the dominant axis, horizontal when |dx| = |dy|
C12_SwipeTiesHorizontal ==
    [][\A n \in 1..MaxContacts : EndStep(n) =>
          SwipeRule(n,
                    /\ getDistance(contacts[n].from, TouchAt(n)) >= swipeMinDistance
                    /\ now - contacts[n].start <= swipeMaxTime,
                    LAMBDA dx, dy : Abs(dx) >= Abs(dy))]_vars

\* C12 (amended): a swipe is emitted for a single-finger contact exactly
\* when it ends at least 50 px from its start and before the 300 ms timer
\* started with it has fired (at exactly 300 ms either may come first); the
\* direction is the dominant axis, vertical when |dx| = |dy|
C12_SwipeTiesVertical ==
    [][\A n \in 1..MaxContacts : EndStep(n) =>
          SwipeRule(n,
                    /\ getDistance(contacts[n].from, TouchAt(n)) >= swipeMinDistance
                    /\ \/ now - contacts[n].start < swipeMaxTime
                       \/ now - contacts[n].start = swipeMaxTime /\ swipeInner # << >>,
                    LAMBDA dx, dy : Abs(dx) > Abs(dy))]_vars

\* C12 witness: a swipe along the diagonal has been emitted, downwards
C12_Witness ==
    \E i \in SwipesOf(gmEvents) :
        /\ Abs(gmEvents[i].data.deltaX) = Abs(gmEvents[i].data.deltaY)
        /\ gmEvents[i].data.direction = "down"

\* a step that moves a finger while two are down and the pinch under way
\* has already emitted an event
PinchMove ==
    /\ Len(touches) = 2
    /\ Len(touches') = 2
    /\ touches' # touches
    /\ lastPinch # << >>

PinchEmitted(events) == { i \in 1..Len(events) : events[i].type = "pinch" }

\* 100 * |scale of the move - last emitted scale| * startDistance
ScaleChange == 100 * Abs(getDistance(touches'[1].pos, touches'[2].pos) - lastPinch[1].num)

C25_StrayIgnored ==
    [][strays' # strays =>
          /\ gmEvents' = << >>
          /\ tmEvents' = << >>
          /\ UNCHANGED << activeTouches, holdCalls, touches, tapInner, singleTap,
                          tapBuffer, swipeInner, pinchInner, longPress >>]_vars

(***************************************************************************)
(* Claims about the responsive layer                                       *)
(***************************************************************************)
\* the breakpoints whose threshold the width meets or exceeds
Met(width) == { n \in DOMAIN breakpoints : width >= breakpoints[n] }

Smallest == CHOOSE n \in DOMAIN breakpoints : \A m \in DOMAIN breakpoints :
                                                 breakpoints[n] <= breakpoints[m]

LargestMet(width) ==
    IF Met(width) = {} THEN Smallest
    ELSE CHOOSE n \in Met(width) : \A m \in Met(width) : breakpoints[m] <= breakpoints[n]

\* C14 (as claimed): the breakpoint of the published viewport state is the
\* one with the largest threshold that the width meets or exceeds (the
\* smallest breakpoint when it meets none), whatever the order in which the
\* thresholds are scanned; a width of 834 is tablet_lg
C14_LargestThresholdMet ==
    /\ viewportState.breakpoint = LargestMet(viewportState.width)
    /\ viewportState.width = 834 => viewportState.breakpoint = "tablet_lg"

Emitted(events, type) == \E i \in 1..Len(events) : events[i].type = type

\* C15 (as claimed): either manager emits its breakpoint change event only in
\* a step in which its breakpoint changes, and its orientation change event
\* only in a step in which its orientation changes; a notification that
\* leaves both as they were emits neither
C15_ChangeEventsOnlyOnChange ==
    [][/\ Emitted(erEvents', "responsive:breakpointChange")
             => viewportState'.breakpoint # viewportState.breakpoint
       /\ Emitted(erEvents', "responsive:orientationChange")
             => viewportState'.orientation # viewportState.orientation
       /\ Emitted(rmEvents', "responsive:breakpoint-change")
             => currentBreakpoint' # currentBreakpoint
       /\ Emitted(rmEvents', "orientation:change")
             => orientation' # orientation]_vars

\* no callback that runs updateViewportState is waiting
Settled == screenTimeouts = {} /\ ~observed

\* C16 (as claimed): every notification is followed by a run of the
\* classifier at or after it, so that whenever no run is pending the
\* published viewport state has the window's dimensions
C16_SettledReflectsWindow ==
    Settled => /\ viewportState.width = win.width
               /\ viewportState.height = win.height

(***************************************************************************)
(* Claims about the event bus                                              *)
(***************************************************************************)
Occurrences(seq, x) == Cardinality({ i \in 1..Len(seq) : seq[i] = x })

\* an emit that found no channel, or a channel without subscribers
Unheard(k) == emissions[k].to = {}

\* C18: an emit on a name without a channel, or whose channel has no
\* subscriber, changes nothing: the map of channels and what each subscriber
\* has received stay as they were, and no subscriber ever receives the
\* payload, however it subscribes afterwards
C18_UnheardEmitIsLost ==
    /\ [](\A k \in 1..Len(emissions) : Unheard(k) =>
             \A s \in Subscribers : Occurrences(received[s], k) = 0)
    /\ [][(/\ Len(emissions') = Len(emissions) + 1
           /\ emissions'[Len(emissions')].to = {})
          => /\ subjects' = subjects
             /\ observers' = observers
             /\ received' = received]_vars

\* C18: a payload was emitted on a name nobody listened to, and a later
\* payload on the same name has reached a subscriber
C18_Witness ==
    \E k, j \in 1..Len(emissions) :
        /\ k < j
        /\ emissions[k].name = emissions[j].name
        /\ Unheard(k)
        /\ \E s \in emissions[j].to : Occurrences(received[s], j) = 1

\* C19 (as claimed): every subscriber of the name at the time of an emit
\* gets the payload exactly once, and every subscriber gets the payloads in
\* the order in which they were emitted, also when a callback emits
C19_ExactlyOnceInOrder ==
    /\ \A k \in 1..Len(emissions) : \A s \in emissions[k].to :
          Occurrences(received[s], k) = 1
    /\ \A s \in Subscribers : \A i, j \in 1..Len(received[s]) :
          i < j => received[s][i] < received[s][j]

\* the number of pairs in a sequence of times: two successive events less
\* than timeWindow apart are a pair, and the events that follow within
\* timeWindow of the pair's first event belong to no other pair
RECURSIVE Pairs(_)
Pairs(times) ==
    IF Len(times) < 2 THEN 0
    ELSE IF times[2] - times[1] < timeWindow
         THEN 1 + Pairs(SelectSeq(Tail(Tail(times)),
                                  LAMBDA t : t >= times[1] + timeWindow))
         ELSE Pairs(Tail(times))

\* the detector has nothing buffered and the last event is timeWindow old
DcQuiet ==
    /\ dc.on
    /\ dc.buffer = << >>
    /\ emissions # << >> => busNow - emissions[Len(emissions)].at >= timeWindow

\* C20 (as claimed): doubleClick has emitted one derived event for every two
\* events that came within timeWindow of each other, wherever they fell in
\* the detector's windows, and none for a third event of the same window
C20_OneDerivedPerPair ==
    DcQuiet => Len(derived) = Pairs([i \in 1..Len(emissions) |-> emissions[i].at])

(***************************************************************************)
(* Claims about the game state's pipelines                                 *)
(***************************************************************************)
\* the monitored slice of the state
Slice(state) == state.fields[stateKey]

\* the slice is a number on the monitored side of the threshold
OnSide(type, value) == value # << >> /\ thresholdFilter(type, value[1])

\* C21 (as claimed): a subscribed threshold monitor emits only when the
\* slice crosses from the other side of the threshold to the monitored side;
\* updates that keep the slice on the same side emit nothing, and an
\* unchanged value is never emitted again
C21_EmitsOnlyOnCrossing ==
    [][\A type \in MonitorTypes :
          (monitors[type].on /\ monEvents'[type] # << >>)
          => /\ ~OnSide(type, Slice(gameState))
             /\ OnSide(type, Slice(gameState'))]_vars

\* the counts a streak detector emits for a number of events: none for the
\* first streakLength - 1, then streakLength, streakLength + 1, ...
StreakCounts(events) ==
    [i \in 1..Max(0, events - streakLength + 1) |-> streakLength + i - 1]

\* C22: while the detector is subscribed its count is the number of events
\* on the channel since the subscription, however long the channel was idle,
\* and it has emitted nothing for the first streakLength - 1 events and then
\* each count from streakLength on exactly once, in order
C22_StreakCounts ==
    streak.pc = "subscribed"
    => /\ streak.acc = scored
       /\ streakOut = StreakCounts(scored)

\* C22: the detector has emitted streakLength and the next count, and the
\* channel has been idle for a long time since
C22_Witness ==
    /\ streak.pc = "subscribed"
    /\ scored = streakLength + 1
    /\ streakOut = << streakLength, streakLength + 1 >>
    /\ idle = MaxIdle
(***************************************************************************)
(* Claims about the AdaptiveRenderer                                       *)
(***************************************************************************)
EventsOf(type) == { i \in 1..Len(arEvents) : arEvents[i].type = type }

EmergencyRan == EventsOf("renderer:emergencyMode") # {}

IsEmergencyLevel(s) ==
    s.quality = "low" /\ s.resolution = 50 /\ s.particleLimit = 25

\* settings that calculateOptimalSettings can be handed: the presets, what
\* forceQuality installs, and the targetFPS the device listeners set
AltSettings ==
    LET base == { getDefaultSettings, EmergencySettings } \cup
                { InitialSettings(t) : t \in Tiers } \cup
                { getSettingsForQuality(getDefaultSettings, q) : q \in Qualities }
    IN  { [b EXCEPT !.targetFPS = t] : b \in base, t \in {60, 30, 15, 10} }

\* C5 (as claimed): whenever emergencyQualityReduction has run, the current
\* settings when renderer:emergencyMode is emitted, and at the end of that
\* step, are the emergency settings (low, 0.5, 25 particles).
C5_EmergencyWins ==
    \A i \in EventsOf("renderer:emergencyMode") :
        IsEmergencyLevel(arEvents[i].live) /\ IsEmergencyLevel(currentSettings)

\* C6: emergencyQualityReduction runs only when at least 5000 ms have passed
\* since its previous run (or it never ran), so a second emergency sample one
\* second after the first does not run it again.
C6_EmergencyThrottled ==
    [][EmergencyRan' => sinceEmergency >= EmergencyThrottleMs]_vars

\* C6 witness: one second after a run, an emergency-level sample has been
\* published and let through to the ladder, and the reduction did not run.
C6_Witness ==
    /\ sinceEmergency = RenderTick
    /\ EmergencyFilter(performanceMetrics)
    /\ ladderThrottle = TimerIn(LadderThrottleMs)
    /\ clMetrics = performanceMetrics
    /\ ~EmergencyRan

\* C7 (as claimed): after the k-th sample of the stream 60, 58, 40, 25, 20 the
\* quality is high, high, medium, low, low, and the emergency reduction has
\* run exactly once, at the last sample.
C7_ScenarioAsClaimed ==
    scn.n >= 1 =>
        /\ currentSettings.quality = ScenarioQuality[scn.n]
        /\ scn.emergencies = (IF scn.n = Len(ScenarioStream) THEN 1 ELSE 0)

\* C7 (amended): after the k-th sample of the stream the quality is high,
\* high, medium, low, low, and the emergency reduction has not run at all
\* (fps = 20 is not below 20).
C7_Scenario ==
    scn.n >= 1 =>
        /\ currentSettings.quality = ScenarioQuality[scn.n]
        /\ scn.emergencies = 0

\* C7 witness: the whole stream has been delivered.
C7_Witness == scn.n = Len(ScenarioStream) /\ performanceMetrics.fps = 20

WithoutTargetFPS(s) == [s EXCEPT !.targetFPS = 0]

\* C8 (as claimed): for the latest sample and the device tier, the candidate
\* is the same whatever the current settings are.
C8_CandidateIgnoresCurrent ==
    arPc = "running" =>
        \A s \in AltSettings :
            calculateOptimalSettings(clMetrics, s, deviceTier)
                = calculateOptimalSettings(clMetrics, currentSettings, deviceTier)

\* C8 (amended): the candidate copies targetFPS from the current settings;
\* when the sample's fps is below 45 every other field of the candidate is
\* the same whatever the current settings are.
C8_CandidateBelowMedium ==
    arPc = "running" =>
        \A s \in AltSettings :
            LET c1 == calculateOptimalSettings(clMetrics, s, deviceTier)
                c2 == calculateOptimalSettings(clMetrics, currentSettings, deviceTier)
            IN  /\ c1.targetFPS = s.targetFPS
                /\ clMetrics.fps < FpsTargetMedium
                      => WithoutTargetFPS(c1) = WithoutTargetFPS(c2)

\* C8 witness: the ladder has computed a candidate for a sample below 45 fps
\* from current settings whose targetFPS a device listener had changed.
C8_Witness ==
    /\ arPc = "running"
    /\ clMetrics.fps < FpsTargetMedium
    /\ currentSettings.targetFPS = BlurTargetFPS
    /\ ducKey = << currentSettings >>
    /\ ladderThrottle = TimerIn(LadderThrottleMs)

\* a metrics publication that throttleTime(1000) lets through to the ladder
LadderStep == arPc = "running" /\ ~Throttled(ladderThrottle) /\ ladderThrottle'.on

Changes(ev) == SelectSeq(ev, LAMBDA e : e.type = "renderer:settingsChanged")

\* C10 (as claimed): the current settings are replaced exactly when the
\* settings to apply differ from them, every replacement comes with one
\* renderer:settingsChanged event {previous, current, reason}, and a sample
\* identical to the previous one produces no such event.
C10_ReplacementsAnnounced ==
    [][LET ch == Changes(arEvents')
       IN  /\ currentSettings' # currentSettings => Len(ch) >= 1
           /\ \A i \in 1..Len(ch) :
                 /\ ch[i].data.previous # ch[i].data.current
                 /\ ch[i].data.previous = (IF i = 1 THEN currentSettings
                                           ELSE ch[i - 1].data.current)
                 /\ ch[i].data.reason = "performance_adaptation"
           /\ Len(ch) >= 1 => ch[Len(ch)].data.current = currentSettings'
           /\ ( /\ arPc = "running" /\ sampleWait = 0 /\ sampleWait' = SamplerWindowMs
                /\ performanceMetrics' = performanceMetrics )
                 => Len(ch) = 0]_vars

\* a listener of handleDeviceEvents has run: no sample, no timer, no clock
DeviceStep ==
    /\ arPc = "running"
    /\ UNCHANGED << arPc, performanceMetrics, ladderThrottle, emergencyThrottle, memoryPoll,
                    sampleWait >>

\* C11 (as claimed): when the page becomes hidden or the window loses focus,
\* the current settings afterwards, recalculation included, differ from those
\* before in targetFPS only, which is 10 (hidden) or 15 (blur)
C11_OnlyTargetFPS ==
    [][DeviceStep =>
          /\ WithoutTargetFPS(currentSettings') = WithoutTargetFPS(currentSettings)
          /\ currentSettings'.targetFPS \in {HiddenTargetFPS, BlurTargetFPS}]_vars

\* C17 (as claimed): with a WebGL context, a vendor/renderer string that
\* includes none of the known substrings and no reported device memory, the
\* device tier detected is 'mid'
C17_UnknownGpuIsMid ==
    (/\ arPc # "fields"
     /\ device.gl
     /\ device.gpu = {}
     /\ device.deviceMemory = 0) => deviceTier = "mid"

\* the settings that became current in the last step, in order
Became == [i \in 1..Len(Changes(arEvents)) |-> Changes(arEvents)[i].data.current]

\* C27 (as claimed): the subscriber of getCurrentSettings() receives the
\* settings in the order in which they became current, and after every step
\* the last value it received is the controller's current settings.
C27_DeliveredInOrder ==
    settingsSub.on =>
        /\ settingsSub.got = Became \/ settingsSub.got = << currentSettings >>
        /\ settingsSub.last = << currentSettings >>

\* the settings a recalculation can start from: the current ones and what
\* emergencyQualityReduction and forceQuality would make current
Applicable ==
    {currentSettings, EmergencySettings}
    \cup { getSettingsForQuality(currentSettings, q) : q \in Qualities }

\* C28: for the sample the ladder holds, the sample published last and the
\* device's tier, the candidate computed from a candidate is that candidate,
\* whether the first was computed from the current settings, the emergency
\* settings or a forced quality; and in every step a
\* replacement of the current settings is followed, through the
\* current-settings stream, by at most one further replacement, so that no
\* step replaces the settings more than three times (the ladder once, the
\* emergency reduction and its recalculation), and none but a sample with an
\* emergency more than twice.
C28_RecalculationStops ==
    /\ \A m \in {clMetrics, performanceMetrics} :
          \A s \in Applicable :
             LET cand == calculateOptimalSettings(m, s, deviceTier)
             IN  calculateOptimalSettings(m, cand, deviceTier) = cand
    /\ chain <= 2
    /\ Len(Changes(arEvents)) <= (IF EmergencyRan THEN 3 ELSE 2)

\* C28 witness: the emergency reduction has replaced the settings and the
\* recalculation it re-triggered has replaced them once more.
C28_Witness ==
    /\ EmergencyRan
    /\ chain = 2
    /\ Len(Changes(arEvents)) >= 2
    /\ currentSettings = calculateOptimalSettings(clMetrics, EmergencySettings, deviceTier)
    /\ currentSettings # EmergencySettings

(***************************************************************************)
(* Claims about SaveManager                                                *)
(***************************************************************************)
\* the stored text cannot be parsed, or it parses to an envelope whose data
\* does not hash to the envelope's hash
Corrupt(item) ==
    /\ item # << >>
    /\ \/ parse(item[1]) = << >>
       \/ LET saveData == parse(item[1])[1]
          IN  /\ saveData.data # << >>
              /\ saveData.hash # << generateHash(saveData.data[1]) >>

\* C23 (round trip): load() after a save that returned true, with
\* localStorage as the save left it, returns the saved value when that value
\* is one JSON represents
C23_RoundTrip ==
    (loaded.done /\ saved # << >> /\ saved[1] \in Serialisable)
    => loaded.result = Returned(saved[1])

\* C23_RoundTrip: a value was saved and loaded back
C23_RoundTripWitness ==
    /\ loaded.done
    /\ saved = << Value("object", 1) >>
    /\ loaded.result = Returned(Value("object", 1))

\* C23 (as claimed): the round trip, and load() returns null without
\* throwing whenever the stored text cannot be parsed or the envelope's data
\* does not hash to the envelope's hash
C23_RoundTripAndIntegrity ==
    /\ C23_RoundTrip
    /\ (loaded.done /\ Corrupt(loaded.item)) => loaded.result = Returned(Null)

(***************************************************************************)
(* Claims about the host page's messages and the embed context             *)
(***************************************************************************)
\* the parent's origin is known and the message comes from elsewhere
Foreign(event, context) ==
    context.parentOrigin # << >> /\ event.origin # context.parentOrigin[1]

\* the message's data is missing or has no type that is a string
Malformed(data) == data.shape = "null" \/ ~HasStringType(data)

\* C24 (as claimed): a message from an origin other than the known parent
\* origin, and a message whose data is missing or has no string type, is
\* dropped by every listener: no error is raised, nothing is done and no
\* state changes
C24_MessagesValidated ==
    [][emCount' # emCount =>
          ((Foreign(emLast'[1], emHeap[emValue]) \/ Malformed(emLast'[1].data))
           => /\ ~emThrew'
              /\ emEffects' = << >>
              /\ erEvents' = << >>
              /\ UNCHANGED << win, viewportState, emHeap, emValue, emSub,
                              parentMessages >>)]_vars

\* C26 (as claimed): a snapshot a subscriber of getEmbedContext() received
\* is the same as when it was received, and the last snapshot received is
\* the current embed context
C26_SnapshotsImmutable ==
    /\ \A i \in 1..Len(emSub.got) : emHeap[emSub.got[i].ref] = emSub.got[i].content
    /\ emSub.got[Len(emSub.got)].content = emHeap[emValue]

(***************************************************************************)
(* Claims about the GameStateManager                                       *)
(***************************************************************************)
AutoSaved(events) == \E i \in 1..Len(events) : events[i].type = "game:autoSave"

\* C29 (as claimed): a state update emits game:autoSave only when the
\* player's level, the player's experience or the progress record changed;
\* an update of the position, the pause flag or the performance figures
\* emits none.
C29_AutoSaveOnlyOnChange ==
    [][AutoSaved(gsmEvents') =>
          \/ gsmState'.player.level # gsmState.player.level
          \/ gsmState'.player.experience # gsmState.player.experience
          \/ gsmState'.progress # gsmState.progress]_vars

(***************************************************************************)
(* Claims about the SceneManager                                           *)
(***************************************************************************)
\* C30 (as claimed): after every operation no scene on the scene stack is
\* stopped in the engine (so the current scene is running or paused), and
\* pop() on a stack of one scene returns null and changes nothing.
C30_NoStoppedSceneOnStack ==
    [][/\ \A i \in 1..Len(sceneStack') : engine'[sceneStack'[i]] # "stopped"
       /\ (scLast'.op = "pop" /\ Len(sceneStack) = 1) =>
             /\ scLast'.result = << >>
             /\ UNCHANGED << sceneStack, sceneData, engine >>]_vars
====
